---- MODULE Spec2Model ----
(***************************************************************************)
(* Model of the DollWorkflowAI task execution engine: WorkflowEngine       *)
(* (validation, FIFO queue, bounded admission, the per-task pipeline) and  *)
(* the DB gateway (tasks.json behind the promise-chain Mutex, per-task log *)
(* files, startup recovery).                                               *)
(*                                                                         *)
(* Atomicity follows the Node.js event loop: one action is the synchronous *)
(* run of a continuation up to its next await that waits for I/O.  A DB    *)
(* operation queued on the Mutex completes in call order; the caller's     *)
(* continuation runs in the same turn of the loop as the completion.       *)
(***************************************************************************)
EXTENDS Integers, Sequences, FiniteSets, TLC

(* ------------------------------- bounds -------------------------------- *)
MaxTasks == 3
MaxLimit == 3
MaxRestarts == 1
MaxConfigPosts == 1
MaxRejects == 1
RestartTasks == 2
OneTasks == 1
OneFaults == 3
OnePolls == 2
ValidateTasks == 1
MaxImages == 3
FsTasks == 2
FsFaults == 2
MaxDbCalls == 4
ListSubmits == 1
MaxLists == 2
PayloadTasks == 1
LiveTasks == 2
MaxGets == 2

(* -------------------------- program constants -------------------------- *)
DefaultConcurrency == 4
UploadAttempts == 3
SubmitAttempts == 3
PollLogEvery == 10

NoVal == "none"
RestartMsg == "System restarted during execution (Check logs for details)"

TaskIds == 1..MaxTasks
Limits == 1..MaxLimit

(* ------------------------------ requests ------------------------------- *)
HAIRSTYLE_EXTRACTION == "hairstyle_extraction"
DOLL_ASSEMBLY == "doll_assembly"
DOLL_REPLACEMENT == "doll_replacement"
WorkflowStage == {HAIRSTYLE_EXTRACTION, DOLL_ASSEMBLY, DOLL_REPLACEMENT}

\* ImageItem: the id is the position in which the client supplied the image.
MkImages(cats) ==
  [i \in 1..Len(cats) |-> [id |-> i, name |-> "img" \o ToString(i), category |-> cats[i]]]

AppSettings ==
  [geekaiApiKey |-> "key", concurrency |-> DefaultConcurrency,
   workingDirectory |-> "./output",
   ossAccessKeyId |-> "ak", ossAccessKeySecret |-> "sk",
   ossEndpoint |-> "oss-cn.aliyuncs.com", ossBucketName |-> "bkt",
   ossFolder |-> "doll-workflow/",
   promptHairstyle |-> "pH", promptAssembly |-> "pA", promptReplacement |-> "pR"]

GenerateRequest(stage, model, size, ratio, cats, settings) ==
  [stage |-> stage, model |-> model, size |-> size, aspect_ratio |-> ratio,
   input_images |-> MkImages(cats), settings |-> settings]

\* The request the clients of the scheduling specifications send: valid, with
\* the images supplied in the reverse of the role order.
EngineRequests ==
  { GenerateRequest(HAIRSTYLE_EXTRACTION, "nano-banana", "1K", "Auto",
                    <<"hair-mannequin", "hair-ref">>, AppSettings) }

\* The requests of SpecOne: the valid one, and one without a bucket name.
OneRequests ==
  EngineRequests \cup
  { GenerateRequest(DOLL_REPLACEMENT, "nano-banana", "1K", "Auto",
                    <<"rep-ref", "rep-prod">>, [AppSettings EXCEPT !.ossBucketName = ""]) }

\* The categories a stage filters for; "uncategorized" is what /api/upload
\* gives an image that came without one.
StageCategories(stage) ==
  CASE stage = HAIRSTYLE_EXTRACTION -> {"hair-ref", "hair-mannequin"}
    [] stage = DOLL_ASSEMBLY -> {"asm-hair", "asm-body", "asm-cloth"}
    [] stage = DOLL_REPLACEMENT -> {"rep-ref", "rep-prod"}

ListsOver(S, n) == UNION { [1..k -> S] : k \in 0..n }

\* The requests of SpecValidate: for each stage every list of at most
\* MaxImages images over the stage's categories and a foreign one, and the
\* valid request with one of the four required strings empty.
WideRequests ==
  UNION { { GenerateRequest(st, "nano-banana", "1K", "Auto", cats, AppSettings) :
              cats \in ListsOver(StageCategories(st) \cup {"uncategorized"}, MaxImages) } :
          st \in WorkflowStage }
  \cup
  { GenerateRequest(HAIRSTYLE_EXTRACTION, f[1], f[2], f[3], <<"hair-ref", "hair-mannequin">>,
                    [AppSettings EXCEPT !.geekaiApiKey = f[4]]) :
      f \in { <<"", "1K", "Auto", "key">>, <<"nano-banana", "", "Auto", "key">>,
               <<"nano-banana", "1K", "", "key">>, <<"nano-banana", "1K", "Auto", "">>,
               <<"", "", "", "">> } }

\* The requests of SpecPayload: every stage with its roles, every model
\* family, size and a choice of ratios: Auto, three of the 2K table, one
\* outside it, and one that names an inherited property.
PayloadModels ==
  {"doubao-seedream-4.5", "doubao-seedream-4.0", "nano-banana", "nano-banana-hd",
   "nano-banana-2", "gpt-image-1"}
PayloadSizes == {"1K", "2K", "4K"}
PayloadRatios == {"Auto", "1:1", "16:9", "21:9", "5:4", "constructor"}
PayloadRoles(stage) ==
  CASE stage = HAIRSTYLE_EXTRACTION -> <<"hair-mannequin", "hair-ref">>
    [] stage = DOLL_ASSEMBLY -> <<"asm-hair", "asm-body", "asm-cloth">>
    [] stage = DOLL_REPLACEMENT -> <<"rep-ref", "rep-prod">>
PayloadRequests ==
  { GenerateRequest(st, m, sz, r, PayloadRoles(st), AppSettings) :
      st \in WorkflowStage, m \in PayloadModels, sz \in PayloadSizes, r \in PayloadRatios }

(* ----------------------------- validation ------------------------------ *)
Filter(imgs, c) == SelectSeq(imgs, LAMBDA i : i.category = c)

\* validateRequest testing `=== 0` for `!== 1`: duplicates of a role pass.
validateRequestLoose(req) ==
  LET imgs == req.input_images
      Rule(cs, msg) ==
        IF \E k \in 1..Len(cs) : Len(Filter(imgs, cs[k])) = 0
        THEN [error |-> msg, req |-> req]
        ELSE [error |-> NoVal, req |-> req]
  IN
  IF req.settings.geekaiApiKey = "" \/ req.model = "" \/ req.size = ""
     \/ req.aspect_ratio = ""
  THEN [error |-> "missing", req |-> req]
  ELSE IF req.stage = HAIRSTYLE_EXTRACTION THEN Rule(<<"hair-ref", "hair-mannequin">>, "Rules")
  ELSE IF req.stage = DOLL_ASSEMBLY THEN Rule(<<"asm-hair", "asm-body", "asm-cloth">>, "Rules")
  ELSE Rule(<<"rep-ref", "rep-prod">>, "Rules")

\* validateRequest without the reassignment of req.input_images.
validateRequestNoReorder(req) ==
  LET imgs == req.input_images
      Rule(cs, msg) ==
        IF \E k \in 1..Len(cs) : Len(Filter(imgs, cs[k])) # 1
        THEN [error |-> msg, req |-> req]
        ELSE [error |-> NoVal, req |-> req]
  IN
  IF req.settings.geekaiApiKey = "" \/ req.model = "" \/ req.size = ""
     \/ req.aspect_ratio = ""
  THEN [error |-> "missing", req |-> req]
  ELSE IF req.stage = HAIRSTYLE_EXTRACTION THEN Rule(<<"hair-ref", "hair-mannequin">>, "Rules")
  ELSE IF req.stage = DOLL_ASSEMBLY THEN Rule(<<"asm-hair", "asm-body", "asm-cloth">>, "Rules")
  ELSE Rule(<<"rep-ref", "rep-prod">>, "Rules")

\* validateRequest: the error string (NoVal for null) and the request as the
\* call leaves it (input_images reordered in place when the stage rule passes).
validateRequest(req) ==
  LET imgs == req.input_images
      Pick(cs) == \* [...a, ...b, ...]
        LET RECURSIVE Cat(_)
            Cat(k) == IF k > Len(cs) THEN <<>> ELSE Filter(imgs, cs[k]) \o Cat(k + 1)
        IN Cat(1)
      Rule(cs, msg) ==
        IF \E k \in 1..Len(cs) : Len(Filter(imgs, cs[k])) # 1
        THEN [error |-> msg, req |-> req]
        ELSE [error |-> NoVal, req |-> [req EXCEPT !.input_images = Pick(cs)]]
  IN
  IF req.settings.geekaiApiKey = "" THEN
    [error |-> "GeekAI API Key is missing. Please check Settings.", req |-> req]
  ELSE IF req.model = "" THEN [error |-> "Please select an AI Model.", req |-> req]
  ELSE IF req.size = "" THEN [error |-> "Please select a Size.", req |-> req]
  ELSE IF req.aspect_ratio = "" THEN
    [error |-> "Please select an Aspect Ratio.", req |-> req]
  ELSE IF req.stage = HAIRSTYLE_EXTRACTION THEN
    Rule(<<"hair-ref", "hair-mannequin">>,
         "Rules: Select exactly 1 Reference image and 1 Mannequin image.")
  ELSE IF req.stage = DOLL_ASSEMBLY THEN
    Rule(<<"asm-hair", "asm-body", "asm-cloth">>,
         "Rules: Select exactly 1 Hair, 1 Body, and 1 Cloth image.")
  ELSE IF req.stage = DOLL_REPLACEMENT THEN
    Rule(<<"rep-ref", "rep-prod">>,
         "Rules: Select exactly 1 Reference image and 1 Product image.")
  ELSE [error |-> NoVal, req |-> req]

(* ------------------------------- state --------------------------------- *)
VARIABLES
  phase,           \* "booting" until recoverState has run, then "serving"
  tasksFile,       \* tasks.json: the task records, most recent first
  logFiles,        \* data/logs/<id>.log: the lines of each task's log file
  configFile,      \* config.json: <<concurrency>>, <<>> while the file is absent
  queue,           \* WorkflowEngine.queue: the task ids of the queued requests
  activeCount,     \* WorkflowEngine.activeCount
  maxConcurrency,  \* WorkflowEngine.maxConcurrency
  initPc,          \* position of WorkflowEngine.init
  dbMutex,         \* the operations chained on dbMutex, in call order
  reqs,            \* the request object of each task id, as validateRequest left it
  pipe,            \* position and locals of each task's submitTask/executeTask
  nextId,          \* the next fresh task id
  rejected,        \* the 400 responses of /api/generate: request and message
  returned,        \* the 200 responses of /api/generate: <<record>> for each task id
  posts,           \* number of POST /api/config calls so far
  faults,          \* number of failed network calls so far
  restarts,        \* number of process restarts so far
  dbChain,         \* SpecDb: the tasks chained on dbMutex, each with what it has read
  dbCalls,         \* SpecDb: the DB calls made so far, in call order
  listed,          \* the 200 responses of GET /api/tasks, in order
  cfgGets,         \* the DB.getConfig calls of GET /api/config: position and result
  cfgSaved         \* <<limit>> of the last DB.saveConfig that has completed

vars ==
  <<phase, tasksFile, logFiles, configFile, queue, activeCount, maxConcurrency,
    initPc, dbMutex, reqs, pipe, nextId, rejected, returned, posts, faults, restarts,
    dbChain, dbCalls,
    listed, cfgGets, cfgSaved>>

NoReq == [stage |-> NoVal]
IdlePipe ==
  [pc |-> "idle", img |-> 0, i |-> 0, links |-> <<>>, payload |-> <<>>, pollCount |-> 0,
   res |-> NoVal]
DeadPipe == [IdlePipe EXCEPT !.pc = "dead"]
DonePipe == [IdlePipe EXCEPT !.pc = "done"]
RecoverOp == [kind |-> "recoverState", id |-> 0, arg |-> NoVal]

\* The in-memory engine state a continuation reads and writes, and the files.
Cur ==
  [tasksFile |-> tasksFile, logFiles |-> logFiles, queue |-> queue,
   activeCount |-> activeCount, maxConcurrency |-> maxConcurrency,
   dbMutex |-> dbMutex, pipe |-> pipe]

Becomes(s) ==
  /\ tasksFile' = s.tasksFile
  /\ logFiles' = s.logFiles
  /\ queue' = s.queue
  /\ activeCount' = s.activeCount
  /\ maxConcurrency' = s.maxConcurrency
  /\ dbMutex' = s.dbMutex
  /\ pipe' = s.pipe

\* The process as `node index.js` starts it: the engine is constructed with
\* its field initialisers and recoverState is the first call on dbMutex.
Init ==
  /\ phase = "booting"
  /\ tasksFile = <<>>
  /\ logFiles = [t \in TaskIds |-> <<>>]
  /\ configFile \in {<<>>} \cup {<<n>> : n \in Limits}
  /\ queue = <<>>
  /\ activeCount = 0
  /\ maxConcurrency = DefaultConcurrency
  /\ initPc = "start"
  /\ dbMutex = <<RecoverOp>>
  /\ reqs = [t \in TaskIds |-> NoReq]
  /\ pipe = [t \in TaskIds |-> IdlePipe]
  /\ nextId = 1
  /\ rejected = <<>>
  /\ returned = [t \in TaskIds |-> <<>>]
  /\ posts = 0
  /\ faults = 0
  /\ restarts = 0
  /\ dbChain = <<>>
  /\ dbCalls = <<>>
  /\ listed = <<>>
  /\ cfgGets = <<>>
  /\ cfgSaved = <<>>

(* --------------------------------- DB ---------------------------------- *)
\* Mutex.run: the task is chained behind every task chained before it.
MutexRun(s, op) == [s EXCEPT !.dbMutex = Append(@, op)]

\* addTaskLog with writeFile for appendFile: the file holds the last line only.
addTaskLogOverwrite(s, t, message) == [s EXCEPT !.logFiles[t] = <<message>>]

\* DB.addTaskLog: appends one line to the task's own file, outside dbMutex.
\* (The "[HH:MM:SS] " prefix of the line is left out.)
addTaskLog(s, t, message) == [s EXCEPT !.logFiles[t] = Append(@, message)]

\* { ...task, ...updates }
Merge(task, updates) ==
  [f \in DOMAIN task |-> IF f \in DOMAIN updates THEN updates[f] ELSE task[f]]

\* addTask with push for unshift: the new record goes to the end.
addTaskBodyPush(tasks, task) == tasks \o <<task>>

\* Body of DB.addTask: tasks.unshift(task).
addTaskBody(tasks, task) == <<task>> \o tasks

\* Body of DB.updateTask: merge into the record with that id, if any.
updateTaskBody(tasks, taskId, updates) ==
  [k \in 1..Len(tasks) |->
     IF tasks[k].id = taskId /\ \A j \in 1..(k - 1) : tasks[j].id # taskId
     THEN Merge(tasks[k], updates) ELSE tasks[k]]

\* recoverState without the status test: every record becomes failed.
recoverStateBodyAll(tasks) ==
  [k \in 1..Len(tasks) |->
     Merge(tasks[k], [status |-> "failed", endTime |-> "time", error_message |-> RestartMsg])]

\* recoverState rebuilding the record instead of spreading it: the remote id
\* is lost.
recoverStateBodyRebuild(tasks) ==
  [k \in 1..Len(tasks) |->
     IF tasks[k].status = "processing" \/ tasks[k].status = "pending"
     THEN Merge(tasks[k], [status |-> "failed", endTime |-> "time",
                           error_message |-> RestartMsg, geekai_task_id |-> NoVal])
     ELSE tasks[k]]

\* Body of DB.recoverState: pending and processing records become failed.
recoverStateBody(tasks) ==
  [k \in 1..Len(tasks) |->
     IF tasks[k].status = "processing" \/ tasks[k].status = "pending"
     THEN Merge(tasks[k], [status |-> "failed", endTime |-> "time",
                           error_message |-> RestartMsg])
     ELSE tasks[k]]

\* Body of DB.getTasks: the records, each with the lines of its log file.
getTasksBody(tasks, logs) ==
  [k \in 1..Len(tasks) |->
     IF logs[tasks[k].id] # <<>> THEN Merge(tasks[k], [logs |-> logs[tasks[k].id]])
     ELSE tasks[k]]

addTask(s, task) == MutexRun(s, [kind |-> "addTask", id |-> task.id, arg |-> task])
updateTask(s, t, updates) == MutexRun(s, [kind |-> "updateTask", id |-> t, arg |-> updates])
getTasks(s, t) == MutexRun(s, [kind |-> "getTasks", id |-> t, arg |-> NoVal])
saveConfig(s, limit) == MutexRun(s, [kind |-> "saveConfig", id |-> 0, arg |-> limit])

(* ------------------------------- engine -------------------------------- *)
\* executeTask setting the status in tasks.json at once, the write not
\* queued behind dbMutex.
executeTaskEager(s, t) ==
  [updateTask([s EXCEPT !.tasksFile = updateTaskBody(@, t, [status |-> "processing"])],
              t, [status |-> "processing"])
     EXCEPT !.pipe[t].pc = "starting"]

\* executeTask up to its first await: DB.updateTask(taskId, {status:'processing'}).
executeTask(s, t) ==
  [updateTask(s, t, [status |-> "processing"]) EXCEPT !.pipe[t].pc = "starting"]

\* processQueue with `>` for `>=`: one pipeline too many.
processQueueOffByOne(s) ==
  IF Len(s.queue) = 0 THEN s
  ELSE IF s.activeCount > s.maxConcurrency THEN s
  ELSE executeTask([s EXCEPT !.queue = Tail(@), !.activeCount = @ + 1], Head(s.queue))

\* processQueue with pop() for shift(): the newest request is started first.
processQueueLifo(s) ==
  IF Len(s.queue) = 0 THEN s
  ELSE IF s.activeCount >= s.maxConcurrency THEN s
  ELSE executeTask([s EXCEPT !.queue = SubSeq(@, 1, Len(@) - 1), !.activeCount = @ + 1],
                   s.queue[Len(s.queue)])

\* processQueue: starts the head of the queue if a slot is free.
processQueue(s) ==
  IF Len(s.queue) = 0 THEN s
  ELSE IF s.activeCount >= s.maxConcurrency THEN s
  ELSE executeTask([s EXCEPT !.queue = Tail(@), !.activeCount = @ + 1], Head(s.queue))

\* updateConcurrency clamping the in-flight counter to the new limit.
updateConcurrencyClamp(s, limit) ==
  processQueue([s EXCEPT !.maxConcurrency = limit,
                         !.activeCount = IF @ > limit THEN limit - 1 ELSE @])

\* updateConcurrency
updateConcurrency(s, limit) == processQueue([s EXCEPT !.maxConcurrency = limit])

\* The .finally callback without `this.activeCount--`.
finallyNoDecrement(s, t) == processQueue([s EXCEPT !.pipe[t] = DonePipe])

\* The .finally of processQueue: the slot is given back and admission re-run.
finally(s, t) ==
  processQueue([s EXCEPT !.activeCount = @ - 1, !.pipe[t] = DonePipe])

\* The catch of executeTask persisting a fixed text for the error's message.
catchFixedMessage(s, t, message) ==
  LET errMsg == IF message = "" THEN "Unknown error" ELSE message
      logged == addTaskLog(s, t, "CRITICAL FAILURE: " \o errMsg)
  IN [updateTask(logged, t, [status |-> "failed", endTime |-> "time",
                             error_message |-> "Unknown error"])
        EXCEPT !.pipe[t].pc = "failing"]

\* The catch of executeTask writing the failed record without the remote id.
catchClearsRemote(s, t, message) ==
  LET errMsg == IF message = "" THEN "Unknown error" ELSE message
      logged == addTaskLog(s, t, "CRITICAL FAILURE: " \o errMsg)
  IN [updateTask(logged, t, [status |-> "failed", endTime |-> "time",
                             error_message |-> errMsg, geekai_task_id |-> NoVal])
        EXCEPT !.pipe[t].pc = "failing"]

\* The catch of executeTask without the endTime of the failed update.
catchNoEndTime(s, t, message) ==
  LET errMsg == IF message = "" THEN "Unknown error" ELSE message
      logged == addTaskLog(s, t, "CRITICAL FAILURE: " \o errMsg)
  IN [updateTask(logged, t, [status |-> "failed", error_message |-> errMsg])
        EXCEPT !.pipe[t].pc = "failing"]

\* The catch of executeTask: log the failure, then persist failed.
catch(s, t, message) ==
  LET errMsg == IF message = "" THEN "Unknown error" ELSE message
      logged == addTaskLog(s, t, "CRITICAL FAILURE: " \o errMsg)
  IN [updateTask(logged, t, [status |-> "failed", endTime |-> "time",
                             error_message |-> errMsg])
        EXCEPT !.pipe[t].pc = "failing"]

TypeOf(stage) ==
  CASE stage = HAIRSTYLE_EXTRACTION -> "HAIRSTYLE EXTRACTION"
    [] stage = DOLL_ASSEMBLY -> "DOLL ASSEMBLY"
    [] stage = DOLL_REPLACEMENT -> "DOLL REPLACEMENT"
    [] OTHER -> stage

\* submitTask up to `await DB.addTask(newTask)`; a validation error is thrown
\* before anything is created and /api/generate answers 400 with its message.
SubmitTask(req, cap) ==
  /\ phase = "serving"
  /\ Len(rejected) < MaxRejects \/ nextId <= cap
  /\ LET v == validateRequest(req) IN
     IF v.error # NoVal THEN
       /\ Len(rejected) < MaxRejects
       /\ rejected' = Append(rejected, [req |-> req, message |-> v.error])
       /\ UNCHANGED <<phase, tasksFile, logFiles, configFile, queue, activeCount,
                      maxConcurrency, initPc, dbMutex, reqs, pipe, nextId, returned,
                      posts, faults, restarts, dbChain, dbCalls,
                      listed, cfgGets, cfgSaved>>
     ELSE
       /\ nextId <= cap
       /\ LET newTask ==
                [id |-> nextId, type |-> TypeOf(v.req.stage), status |-> "pending",
                 model |-> v.req.model, inputImages |-> v.req.input_images,
                 outputImages |-> <<>>, logs |-> <<>>, startTime |-> "time",
                 endTime |-> NoVal, duration |-> NoVal, geekai_task_id |-> NoVal,
                 error_message |-> NoVal]
          IN Becomes([addTask(Cur, newTask) EXCEPT !.pipe[nextId].pc = "adding"])
       /\ reqs' = [reqs EXCEPT ![nextId] = v.req]
       /\ nextId' = nextId + 1
       /\ UNCHANGED <<phase, configFile, initPc, rejected, returned, posts, faults,
                      restarts, dbChain, dbCalls,
                      listed, cfgGets, cfgSaved>>

(* ------------------------------ pipeline ------------------------------- *)
ImagesOf(t) == reqs[t].input_images
\* The settings part of the body the settings page posts to /api/config.
PostedSettings ==
  [geekaiApiKey |-> "key2", workingDirectory |-> "./elsewhere",
   ossAccessKeyId |-> "id2", ossAccessKeySecret |-> "secret2", ossBucketName |-> "bkt2",
   ossEndpoint |-> "oss-eu.aliyuncs.com", ossFolder |-> "other",
   promptHairstyle |-> "pH2", promptAssembly |-> "pA2", promptReplacement |-> "pR2"]

\* executeTask reading the saved configuration instead of req.settings.
SettingsOfSaved(t) == IF cfgSaved # <<>> THEN PostedSettings ELSE reqs[t].settings

\* req.settings: the settings the request object carries.
SettingsOf(t) == reqs[t].settings

\* settings.ossFolder.replace(/\/$/, '')
StripSlash(folder) == IF folder = "doll-workflow/" THEN "doll-workflow" ELSE folder

\* The object key and the public link of one image (the image's name stands
\* for path.basename(img.local_path)).
OssLink(settings, img) ==
  "https://" \o settings.ossBucketName \o "." \o settings.ossEndpoint \o "/"
    \o StripSlash(settings.ossFolder) \o "/" \o img.name

Prompt(req) ==
  CASE req.stage = HAIRSTYLE_EXTRACTION -> req.settings.promptHairstyle
    [] req.stage = DOLL_ASSEMBLY -> req.settings.promptAssembly
    [] req.stage = DOLL_REPLACEMENT -> req.settings.promptReplacement
    [] OTHER -> ""

\* types.ts PIXEL_MAP_2K.
PIXEL_MAP_2K ==
  [r \in {"1:1", "4:3", "3:4", "16:9", "9:16", "3:2", "2:3", "21:9"} |->
     CASE r = "1:1" -> "2048x2048" [] r = "4:3" -> "2304x1728" [] r = "3:4" -> "1728x2304"
       [] r = "16:9" -> "2560x1440" [] r = "9:16" -> "1440x2560" [] r = "3:2" -> "2496x1664"
       [] r = "2:3" -> "1664x2496" [] r = "21:9" -> "3024x1296"]

\* Property names every object literal inherits from Object.prototype.
ObjectPrototypeKeys == {"constructor", "toString", "valueOf", "hasOwnProperty", "__proto__"}

\* PIXEL_MAP_2K[aspect_ratio]: the own property, else the inherited one (a
\* function or Object.prototype, truthy), else undefined.
PixelMapGet(ratio) ==
  IF ratio \in DOMAIN PIXEL_MAP_2K THEN PIXEL_MAP_2K[ratio]
  ELSE IF ratio \in ObjectPrototypeKeys THEN "Object.prototype." \o ratio
  ELSE NoVal

\* WorkflowEngine.constructPayload; a field the payload lacks is NoVal.
constructPayload(req, ossLinks) ==
  LET prompt == Prompt(req)
      isAuto == req.aspect_ratio = "Auto"
      base == [model |-> req.model, image |-> ossLinks, prompt |-> prompt,
               size |-> NoVal, aspect_ratio |-> NoVal]
  IN CASE req.model \in {"doubao-seedream-4.5", "doubao-seedream-4.0"} ->
            IF req.size = "2K"
            THEN [base EXCEPT !.size =
                    IF ~ isAuto
                    THEN (IF PixelMapGet(req.aspect_ratio) # NoVal
                          THEN PixelMapGet(req.aspect_ratio) ELSE "2048x2048")
                    ELSE "2K"]
            ELSE [base EXCEPT !.size = req.size,
                              !.prompt = IF ~ isAuto
                                         THEN prompt \o " --ratio " \o req.aspect_ratio
                                         ELSE prompt]
       [] req.model \in {"nano-banana-hd", "nano-banana"} ->
            [base EXCEPT !.aspect_ratio = IF ~ isAuto THEN req.aspect_ratio ELSE NoVal]
       [] req.model = "nano-banana-2" ->
            [base EXCEPT !.size = req.size,
                         !.aspect_ratio = IF ~ isAuto THEN req.aspect_ratio ELSE NoVal]
       [] OTHER -> [base EXCEPT !.size = req.size]

\* executeTask from `await this.callGeekAI(...)` on: the links and the payload
\* are logged, then the payload is posted.
afterUpload(s, t) ==
  LET links == s.pipe[t].links
      RECURSIVE LogLinks(_, _)
      LogLinks(x, k) ==
        IF k > Len(links) THEN x
        ELSE LogLinks(addTaskLog(x, t, "OSS Link [" \o ToString(k - 1) \o "]: " \o links[k]),
                      k + 1)
      l1 == LogLinks(addTaskLog(s, t, "OSS upload completed successfully."), 1)
      l2 == addTaskLog(l1, t, "Constructing API payload...")
      l3 == addTaskLog(l2, t, "--- API REQUEST PAYLOAD ---")
      payload == constructPayload(reqs[t], links)
      l4 == addTaskLog(l3, t, "payload " \o payload.model \o " " \o payload.prompt)
      l5 == addTaskLog(l4, t, "---------------------------")
      l6 == addTaskLog(l5, t, "Submitting task to GeekAI API...")
  IN [l6 EXCEPT !.pipe[t].pc = "submit", !.pipe[t].i = 0, !.pipe[t].payload = <<payload>>]

\* uploadImagesToOSS, the `for (const img of images)` loop at image k: the
\* first attempt of image k is logged and client.put is awaited.
uploadNext(s, t, k) ==
  IF k > Len(ImagesOf(t)) THEN afterUpload(s, t)
  ELSE [addTaskLog(s, t, "Uploading " \o ImagesOf(t)[k].name \o " (Attempt 1/3)...")
          EXCEPT !.pipe[t].pc = "upload", !.pipe[t].img = k, !.pipe[t].i = 0]

\* uploadImagesToOSS, entry: the credential check.
uploadImagesToOSS(s, t) ==
  IF SettingsOf(t).ossAccessKeyId = "" \/ SettingsOf(t).ossBucketName = ""
  THEN catch(s, t, "OSS Configuration incomplete")
  ELSE uploadNext(s, t, 1)

\* executeTask after `await DB.updateTask(taskId, {status:'processing'})`.
startPipeline(s, t) ==
  LET req == reqs[t]
      l1 == addTaskLog(s, t, "Task init.")
      l2 == addTaskLog(l1, t, "Stage: " \o req.stage \o ", Model: " \o req.model
                                \o ", Size: " \o req.size \o ", Ratio: " \o req.aspect_ratio)
      l3 == addTaskLog(l2, t, "Starting upload of " \o ToString(Len(req.input_images))
                                \o " images to Aliyun OSS...")
  IN uploadImagesToOSS(l3, t)

\* submitTask after `await DB.addTask(newTask)`: push, then processQueue.
afterAddTask(s, t) ==
  processQueue([s EXCEPT !.queue = Append(@, t), !.pipe[t].pc = "queued"])

\* The continuation of the pipeline that awaited DB.updateTask.
afterUpdateTask(s, t) ==
  CASE s.pipe[t].pc = "starting" -> startPipeline(s, t)
    [] s.pipe[t].pc = "savingRemote" ->
         [addTaskLog(addTaskLog(s, t, "Task submitted successfully. Remote ID: remote-"
                                        \o ToString(t)),
                     t, "Polling for results...")
            EXCEPT !.pipe[t].pc = "poll", !.pipe[t].pollCount = 0]
    [] s.pipe[t].pc = "completing" -> [s EXCEPT !.pipe[t].pc = "finalLog"]
    [] s.pipe[t].pc = "failing" -> finally(s, t)
    [] OTHER -> s

\* calculateDuration after `await DB.getTasks()`, then the completed update.
afterGetTasks(s, t, tasks) ==
  LET duration == IF \E k \in 1..Len(tasks) : tasks[k].id = t THEN "1.0s" ELSE "0s"
      outputImg == [id |-> "out-time", url |-> "/files/gen_" \o ToString(t) \o ".jpg",
                    local_path |-> SettingsOf(t).workingDirectory \o "/gen_"
                                     \o ToString(t) \o ".jpg",
                    name |-> "gen_" \o ToString(t) \o ".jpg", selected |-> FALSE]
  IN [updateTask(s, t, [status |-> "completed", endTime |-> "time",
                        duration |-> duration, outputImages |-> <<outputImg>>])
        EXCEPT !.pipe[t].pc = "completing"]

(* ------------------------- DB operations complete ---------------------- *)
HeadIs(kind) == dbMutex # <<>> /\ Head(dbMutex).kind = kind
Popped == [Cur EXCEPT !.dbMutex = Tail(@)]

\* DB.recoverState completes; its .then starts the HTTP server.
RecoverState ==
  /\ HeadIs("recoverState")
  /\ Becomes([Popped EXCEPT !.tasksFile = recoverStateBody(@)])
  /\ phase' = "serving"
  /\ UNCHANGED <<configFile, initPc, reqs, nextId, rejected, returned, posts, faults,
                 restarts, dbChain, dbCalls,
                 listed, cfgGets, cfgSaved>>

\* DB.addTask completes; submitTask pushes the request, calls processQueue
\* and returns newTask, which /api/generate sends as its answer.
AddTaskDone ==
  /\ HeadIs("addTask")
  /\ LET op == Head(dbMutex) IN
     /\ Becomes(afterAddTask([Popped EXCEPT !.tasksFile = addTaskBody(@, op.arg)], op.id))
     /\ returned' = [returned EXCEPT ![op.id] = <<op.arg>>]
  /\ UNCHANGED <<phase, configFile, initPc, reqs, nextId, rejected, posts, faults,
                 restarts, dbChain, dbCalls,
                 listed, cfgGets, cfgSaved>>

UpdateTaskDone ==
  /\ HeadIs("updateTask")
  /\ LET op == Head(dbMutex) IN
     Becomes(afterUpdateTask(
               [Popped EXCEPT !.tasksFile = updateTaskBody(@, op.id, op.arg)], op.id))
  /\ UNCHANGED <<phase, configFile, initPc, reqs, nextId, rejected, returned, posts,
                 faults, restarts, dbChain, dbCalls,
                 listed, cfgGets, cfgSaved>>

\* DB.getTasks called by calculateDuration completes.
GetTasksDone ==
  /\ HeadIs("getTasks")
  /\ Head(dbMutex).id \in TaskIds
  /\ LET op == Head(dbMutex) IN
     Becomes(afterGetTasks(Popped, op.id, getTasksBody(tasksFile, logFiles)))
  /\ UNCHANGED <<phase, configFile, initPc, reqs, nextId, rejected, returned, posts,
                 faults, restarts, dbChain, dbCalls,
                 listed, cfgGets, cfgSaved>>

\* POST /api/config after `await DB.saveConfig(req.body)`: updateConcurrency.
SaveConfigDone ==
  /\ HeadIs("saveConfig")
  /\ LET op == Head(dbMutex) IN
     /\ configFile' = <<op.arg>>
     /\ Becomes(updateConcurrency(Popped, op.arg))
     /\ cfgSaved' = <<op.arg>>
  /\ UNCHANGED <<phase, initPc, reqs, nextId, rejected, returned, posts, faults, restarts,
                 dbChain, dbCalls, listed, cfgGets>>

\* GET /api/tasks: the handler calls DB.getTasks, which chains on dbMutex.
ListTasks ==
  /\ phase = "serving"
  /\ Len(listed) + Cardinality({k \in 1..Len(dbMutex) :
                                 dbMutex[k].kind = "getTasks" /\ dbMutex[k].id = 0})
       < MaxLists
  /\ Becomes(getTasks(Cur, 0))
  /\ UNCHANGED <<phase, configFile, initPc, reqs, nextId, rejected, returned, posts,
                 faults, restarts, dbChain, dbCalls, listed, cfgGets, cfgSaved>>

\* ListTasksDone whose getTasks marks the records it finds processing as
\* failed and writes the list back.
ListTasksDoneMarking ==
  /\ HeadIs("getTasks")
  /\ Head(dbMutex).id = 0
  /\ listed' = Append(listed, getTasksBody(recoverStateBody(tasksFile), logFiles))
  /\ Becomes([Popped EXCEPT !.tasksFile = recoverStateBody(@)])
  /\ UNCHANGED <<phase, configFile, initPc, reqs, nextId, rejected, returned, posts,
                 faults, restarts, dbChain, dbCalls, cfgGets, cfgSaved>>

\* DB.getTasks called by GET /api/tasks completes: res.json(tasks).
ListTasksDone ==
  /\ HeadIs("getTasks")
  /\ Head(dbMutex).id = 0
  /\ listed' = Append(listed, getTasksBody(tasksFile, logFiles))
  /\ Becomes(Popped)
  /\ UNCHANGED <<phase, configFile, initPc, reqs, nextId, rejected, returned, posts,
                 faults, restarts, dbChain, dbCalls, cfgGets, cfgSaved>>

(* --------------------------- network events ---------------------------- *)
Others ==
  <<phase, configFile, initPc, reqs, nextId, rejected, returned, posts, restarts,
    dbChain, dbCalls,
    listed, cfgGets, cfgSaved>>

\* The text of a file-system error of fs.readJSON / fs.writeJSON.
FsError == "ENOSPC: no space left on device, write"

\* The continuation of the pipeline whose awaited DB.updateTask rejected:
\* inside the try the error goes to the catch of executeTask; thrown by the
\* update of the catch itself it leaves executeTask, the .finally callback of
\* processQueue runs, and the promise .finally returns rejects with no handler.
afterUpdateTaskRejected(s, t) ==
  CASE s.pipe[t].pc \in {"starting", "savingRemote", "completing"} -> catch(s, t, FsError)
    [] s.pipe[t].pc = "failing" -> [finally(s, t) EXCEPT !.pipe[t].res = "unhandledRejection"]
    [] OTHER -> s

\* DB.updateTask rejects: readJSON or writeJSON threw inside the mutex task;
\* tasks.json is left as it was and the mutex chain goes on.
UpdateTaskFail(cap) ==
  /\ HeadIs("updateTask")
  /\ faults < cap
  /\ faults' = faults + 1
  /\ Becomes(afterUpdateTaskRejected(Popped, Head(dbMutex).id))
  /\ UNCHANGED Others

\* UploadOk with links.unshift for links.push: the links come out reversed.
UploadOkUnshift(t) ==
  /\ pipe[t].pc = "upload"
  /\ LET img == ImagesOf(t)[pipe[t].img]
         s1 == [Cur EXCEPT !.pipe[t].links = <<OssLink(SettingsOf(t), img)>> \o @]
     IN Becomes(uploadNext(s1, t, pipe[t].img + 1))
  /\ UNCHANGED <<Others, faults>>

\* client.put resolved for the current image: the link is pushed, next image.
UploadOk(t) ==
  /\ pipe[t].pc = "upload"
  /\ LET img == ImagesOf(t)[pipe[t].img]
         s1 == [Cur EXCEPT !.pipe[t].links = Append(@, OssLink(SettingsOf(t), img))]
     IN Becomes(uploadNext(s1, t, pipe[t].img + 1))
  /\ UNCHANGED <<Others, faults>>

\* The inner catch giving up one attempt later: a fourth put is made.
uploadCatchFourth(s, t, message) ==
  LET i == s.pipe[t].i
      img == ImagesOf(t)[s.pipe[t].img]
      l1 == addTaskLog(s, t, "Upload attempt " \o ToString(i + 1) \o " failed: " \o message)
  IN IF i = UploadAttempts
     THEN catch(l1, t, "OSS Upload Failed for " \o img.name \o ": " \o message)
     ELSE [addTaskLog(l1, t, "Uploading " \o img.name \o " (Attempt " \o ToString(i + 2)
                               \o "/3)...")
             EXCEPT !.pipe[t].i = i + 1]

\* client.put rejected: the inner catch of uploadImagesToOSS.
uploadCatch(s, t, message) ==
  LET i == s.pipe[t].i
      img == ImagesOf(t)[s.pipe[t].img]
      l1 == addTaskLog(s, t, "Upload attempt " \o ToString(i + 1) \o " failed: " \o message)
  IN IF i = UploadAttempts - 1
     THEN catch(l1, t, "OSS Upload Failed for " \o img.name \o ": " \o message)
     ELSE [addTaskLog(l1, t, "Uploading " \o img.name \o " (Attempt " \o ToString(i + 2)
                               \o "/3)...")
             EXCEPT !.pipe[t].i = i + 1]

UploadFail(t, cap) ==
  /\ pipe[t].pc = "upload"
  /\ faults < cap
  /\ faults' = faults + 1
  /\ Becomes(uploadCatch(Cur, t, "connect ETIMEDOUT"))
  /\ UNCHANGED Others

\* The catch of one attempt giving up one attempt later: a fourth post.
callGeekAICatchFourth(s, t, errMsg, hasData) ==
  LET i == s.pipe[t].i
      l1 == addTaskLog(s, t, "GeekAI API Call Attempt " \o ToString(i + 1) \o " Failed: "
                               \o errMsg)
      l2 == IF hasData THEN addTaskLog(l1, t, "API Error Response Data: data") ELSE l1
  IN IF i = SubmitAttempts
     THEN catch(l2, t, "GeekAI Request Failed: " \o errMsg)
     ELSE [l2 EXCEPT !.pipe[t].i = i + 1]

\* callGeekAI: the catch of one attempt.
callGeekAICatch(s, t, errMsg, hasData) ==
  LET i == s.pipe[t].i
      l1 == addTaskLog(s, t, "GeekAI API Call Attempt " \o ToString(i + 1) \o " Failed: "
                               \o errMsg)
      l2 == IF hasData THEN addTaskLog(l1, t, "API Error Response Data: data") ELSE l1
  IN IF i = SubmitAttempts - 1
     THEN catch(l2, t, "GeekAI Request Failed: " \o errMsg)
     ELSE [l2 EXCEPT !.pipe[t].i = i + 1]

\* callGeekAI: one axios.post settles.  response: "taskId" (200 with task_id),
\* "noTaskId" (200 without one), "http" (an error status with a body) or
\* "transport" (no response at all).
callGeekAI(s, t, response) ==
  CASE response = "taskId" ->
         [updateTask(addTaskLog(s, t, "API Response Status: 200"), t,
                     [geekai_task_id |-> "remote-" \o ToString(t)])
            EXCEPT !.pipe[t].pc = "savingRemote"]
    [] response = "noTaskId" ->
         callGeekAICatch(addTaskLog(s, t, "API Response Status: 200"), t,
                         "API returned 200: {}", FALSE)
    [] response = "http" -> callGeekAICatch(s, t, "Internal Server Error", TRUE)
    [] OTHER -> callGeekAICatch(s, t, "timeout of 600000ms exceeded", FALSE)

SubmitOk(t) ==
  /\ pipe[t].pc = "submit"
  /\ Becomes(callGeekAI(Cur, t, "taskId"))
  /\ UNCHANGED <<Others, faults>>

SubmitFail(t, response, cap) ==
  /\ pipe[t].pc = "submit"
  /\ faults < cap
  /\ faults' = faults + 1
  /\ Becomes(callGeekAI(Cur, t, response))
  /\ UNCHANGED Others

\* The catch of one poll iteration with every error status fatal.
pollCatchAnyStatus(s, t, e) ==
  IF e.hasResponse /\ e.status >= 400
  THEN LET errMsg == IF e.message = "" THEN "API Error" ELSE e.message
       IN catch(addTaskLog(s, t, "Polling Fatal Error: " \o errMsg), t, errMsg)
  ELSE s

\* pollGeekAIResult: the catch of one iteration.  e.response is present for an
\* HTTP error status only; a 4xx is rethrown out of the loop.
pollCatch(s, t, e) ==
  IF e.hasResponse /\ e.status >= 400 /\ e.status < 500
  THEN LET errMsg == IF e.message = "" THEN "API Error" ELSE e.message
       IN catch(addTaskLog(s, t, "Polling Fatal Error: " \o errMsg), t, errMsg)
  ELSE s

\* pollGeekAIResult: one iteration of `while (true)`, the status query settled
\* with r: a body with task_status, or an error.
pollGeekAIResult(s, t, r) ==
  LET n == s.pipe[t].pollCount + 1
      s0 == [s EXCEPT !.pipe[t].pollCount = n, !.pipe[t].res = r.kind]
  IN IF r.kind \in {"e4xx", "e5xx", "timeout"}
     THEN pollCatch(s0, t, [hasResponse |-> r.kind # "timeout", status |-> r.status,
                            message |-> r.message])
     ELSE
       LET s1 == IF n % PollLogEvery = 0
                 THEN addTaskLog(s0, t, "Polling... Current Status: " \o r.kind)
                 ELSE s0
       IN CASE r.kind = "succeed" ->
                 [addTaskLog(addTaskLog(s1, t, "Image generation succeeded. Result URL: url"),
                             t, "Downloading result...")
                    EXCEPT !.pipe[t].pc = "ensureDir"]
            [] r.kind = "failed" ->
                 LET failureMsg == IF r.message = "" THEN "Task failed remotely"
                                   ELSE r.message
                 IN \* `throw new Error(failureMsg)` inside the try: the catch of the
                    \* same iteration receives it, an error without a response
                    pollCatch(addTaskLog(s1, t, "Remote Task Failed: " \o failureMsg), t,
                              [hasResponse |-> FALSE, status |-> 0, message |-> failureMsg])
            [] OTHER -> s1

\* The answers of the status endpoint in the scheduling specifications.
EnginePolls ==
  { [kind |-> "succeed", status |-> 200, message |-> ""],
    [kind |-> "e4xx", status |-> 404, message |-> "task not found"] }

PollResponses ==
  { [kind |-> "pending", status |-> 200, message |-> ""],
    [kind |-> "succeed", status |-> 200, message |-> ""],
    [kind |-> "failed", status |-> 200, message |-> ""],
    [kind |-> "failed", status |-> 200, message |-> "content policy"],
    [kind |-> "e4xx", status |-> 401, message |-> ""],
    [kind |-> "e4xx", status |-> 404, message |-> "task not found"],
    [kind |-> "e5xx", status |-> 502, message |-> "bad gateway"],
    [kind |-> "timeout", status |-> 0, message |-> "timeout of 30000ms exceeded"] }

Poll(t, r, cap) ==
  /\ pipe[t].pc = "poll"
  /\ r.kind \in {"succeed", "e4xx"} \/ pipe[t].pollCount < cap
  /\ Becomes(pollGeekAIResult(Cur, t, r))
  /\ UNCHANGED <<Others, faults>>

\* downloadImage: `await fs.ensureDir(saveDir)` resolved; the first GET is sent.
EnsureDirOk(t) ==
  /\ pipe[t].pc = "ensureDir"
  /\ Becomes([Cur EXCEPT !.pipe[t].pc = "download"])
  /\ UNCHANGED <<Others, faults>>

\* downloadImage: fs.ensureDir rejected, outside the retry loop: the error
\* leaves downloadImage and reaches the catch of executeTask.
EnsureDirFail(t, cap) ==
  /\ pipe[t].pc = "ensureDir"
  /\ faults < cap
  /\ faults' = faults + 1
  /\ Becomes(catch(Cur, t, "EACCES: permission denied, mkdir"))
  /\ UNCHANGED Others

\* downloadImage with the failed GET thrown instead of retried.
DownloadFailThrows(t, cap) ==
  /\ pipe[t].pc = "download"
  /\ faults < cap
  /\ faults' = faults + 1
  /\ Becomes(catch(addTaskLog(Cur, t, "Download failed (retrying): socket hang up"), t,
                   "socket hang up"))
  /\ UNCHANGED Others

\* downloadImage: an attempt failed; logged, retried after the delay.
DownloadFail(t, cap) ==
  /\ pipe[t].pc = "download"
  /\ faults < cap
  /\ faults' = faults + 1
  /\ Becomes(addTaskLog(Cur, t, "Download failed (retrying): socket hang up"))
  /\ UNCHANGED Others

\* downloadImage returned; executeTask goes on to calculateDuration.
DownloadOk(t) ==
  /\ pipe[t].pc = "download"
  /\ Becomes([getTasks(addTaskLog(Cur, t, "Image saved to " \o SettingsOf(t).workingDirectory
                                            \o "/gen_" \o ToString(t) \o ".jpg"), t)
                EXCEPT !.pipe[t].pc = "duration"])
  /\ UNCHANGED <<Others, faults>>

\* The last log line of executeTask is written; the .finally runs.
Finish(t) ==
  /\ pipe[t].pc = "finalLog"
  /\ Becomes(finally(addTaskLog(Cur, t, "Task completed."), t))
  /\ UNCHANGED <<Others, faults>>

(* ------------------------- configuration, restart ---------------------- *)
\* POST /api/config up to `await DB.saveConfig(req.body)`.
ConfigPost(limit) ==
  /\ phase = "serving"
  /\ posts < MaxConfigPosts
  /\ posts' = posts + 1
  /\ Becomes(saveConfig(Cur, limit))
  /\ UNCHANGED <<phase, configFile, initPc, reqs, nextId, rejected, returned, faults,
                 restarts, dbChain, dbCalls,
                 listed, cfgGets, cfgSaved>>

\* WorkflowEngine.init: DB.getConfig finds config.json and reads it, or finds
\* none and starts writing the default one.
EngineInit ==
  /\ initPc = "start"
  /\ IF configFile = <<>>
     THEN initPc' = "writing" /\ UNCHANGED maxConcurrency
     ELSE /\ initPc' = "done"
          /\ maxConcurrency' = (IF configFile[1] = 0 THEN DefaultConcurrency ELSE configFile[1])
  /\ UNCHANGED <<phase, tasksFile, logFiles, configFile, queue, activeCount, dbMutex, reqs,
                 pipe, nextId, rejected, returned, posts, faults, restarts, dbChain, dbCalls,
                 listed, cfgGets, cfgSaved>>

\* DB.getConfig's write of DEFAULT_CONFIG lands; init takes its concurrency.
EngineInitDefault ==
  /\ initPc = "writing"
  /\ initPc' = "done"
  /\ configFile' = <<DefaultConcurrency>>
  /\ maxConcurrency' = DefaultConcurrency
  /\ UNCHANGED <<phase, tasksFile, logFiles, queue, activeCount, dbMutex, reqs,
                 pipe, nextId, rejected, returned, posts, faults, restarts, dbChain, dbCalls,
                 listed, cfgGets, cfgSaved>>

\* The serving process dies and is started again: the files stay, everything
\* in memory is as the constructors leave it.
Restart ==
  /\ phase = "serving"
  /\ restarts < MaxRestarts
  /\ restarts' = restarts + 1
  /\ phase' = "booting"
  /\ queue' = <<>>
  /\ activeCount' = 0
  /\ maxConcurrency' = DefaultConcurrency
  /\ initPc' = "start"
  /\ dbMutex' = <<RecoverOp>>
  /\ pipe' = [t \in TaskIds |-> IF pipe[t].pc = "idle" THEN IdlePipe ELSE DeadPipe]
  /\ reqs' = [t \in TaskIds |-> NoReq]
  /\ UNCHANGED <<tasksFile, logFiles, configFile, nextId, rejected, returned, posts,
                 faults, dbChain, dbCalls,
                 listed, cfgGets, cfgSaved>>

\* GET /api/config calls DB.getConfig, which runs outside dbMutex: its
\* synchronous part tests fs.existsSync(CONFIG_FILE) and either starts reading
\* the file or starts writing DEFAULT_CONFIG. `after` is what had been saved
\* by the saveConfig calls completed before this call.
GetConfig ==
  /\ phase = "serving"
  /\ Len(cfgGets) < MaxGets
  /\ cfgGets' = Append(cfgGets, [pc |-> IF configFile = <<>> THEN "writing" ELSE "reading",
                                 result |-> <<>>, after |-> cfgSaved])
  /\ UNCHANGED <<phase, tasksFile, logFiles, configFile, queue, activeCount,
                 maxConcurrency, initPc, dbMutex, reqs, pipe, nextId, rejected, returned,
                 posts, faults, restarts, dbChain, dbCalls, listed, cfgSaved>>

\* fs.readJSON(CONFIG_FILE) resolves: { ...DEFAULT_CONFIG, ...file }.
GetConfigRead(k) ==
  /\ k \in 1..Len(cfgGets)
  /\ cfgGets[k].pc = "reading"
  /\ cfgGets' = [cfgGets EXCEPT ![k].pc = "done", ![k].result = configFile]
  /\ UNCHANGED <<phase, tasksFile, logFiles, configFile, queue, activeCount,
                 maxConcurrency, initPc, dbMutex, reqs, pipe, nextId, rejected, returned,
                 posts, faults, restarts, dbChain, dbCalls, listed, cfgSaved>>

\* fs.writeJSON(CONFIG_FILE, DEFAULT_CONFIG) lands; DEFAULT_CONFIG is returned.
GetConfigDefault(k) ==
  /\ k \in 1..Len(cfgGets)
  /\ cfgGets[k].pc = "writing"
  /\ configFile' = <<DefaultConcurrency>>
  /\ cfgGets' = [cfgGets EXCEPT ![k].pc = "done", ![k].result = <<DefaultConcurrency>>]
  /\ UNCHANGED <<phase, tasksFile, logFiles, queue, activeCount,
                 maxConcurrency, initPc, dbMutex, reqs, pipe, nextId, rejected, returned,
                 posts, faults, restarts, dbChain, dbCalls, listed, cfgSaved>>

(* --------------------------- specifications --------------------------- *)
\* Spec: the scheduler under load.  MaxTasks submissions, limit changes, every
\* network call of a pipeline answered at its first attempt, the status
\* endpoint answering succeed or a 4xx.
Next ==
  \/ \E r \in EngineRequests : SubmitTask(r, MaxTasks)
  \/ RecoverState
  \/ AddTaskDone
  \/ UpdateTaskDone
  \/ GetTasksDone
  \/ SaveConfigDone
  \/ \E t \in TaskIds : UploadOk(t)
  \/ \E t \in TaskIds : SubmitOk(t)
  \/ \E t \in TaskIds, r \in EnginePolls : Poll(t, r, 0)
  \/ \E t \in TaskIds : EnsureDirOk(t)
  \/ \E t \in TaskIds : DownloadOk(t)
  \/ \E t \in TaskIds : Finish(t)
  \/ \E n \in Limits : ConfigPost(n)
  \/ EngineInit
  \/ EngineInitDefault

Spec == Init /\ [][Next]_vars

\* SpecRestart: RestartTasks submissions and process restarts.
NextRestart ==
  \/ \E r \in EngineRequests : SubmitTask(r, RestartTasks)
  \/ RecoverState
  \/ AddTaskDone
  \/ UpdateTaskDone
  \/ GetTasksDone
  \/ SaveConfigDone
  \/ \E t \in TaskIds : UploadOk(t)
  \/ \E t \in TaskIds : SubmitOk(t)
  \/ \E t \in TaskIds, r \in EnginePolls : Poll(t, r, 0)
  \/ \E t \in TaskIds : EnsureDirOk(t)
  \/ \E t \in TaskIds : DownloadOk(t)
  \/ \E t \in TaskIds : Finish(t)
  \/ \E n \in Limits : ConfigPost(n)
  \/ EngineInit
  \/ EngineInitDefault
  \/ Restart

SpecRestart == Init /\ [][NextRestart]_vars

\* SpecOne: OneTasks submissions drawn from every shape of request, every
\* failure of every network call, and restarts.
NextOne ==
  \/ \E r \in OneRequests : SubmitTask(r, OneTasks)
  \/ RecoverState
  \/ AddTaskDone
  \/ UpdateTaskDone
  \/ GetTasksDone
  \/ \E t \in TaskIds : UploadOk(t)
  \/ \E t \in TaskIds : UploadFail(t, OneFaults)
  \/ \E t \in TaskIds : SubmitOk(t)
  \/ \E t \in TaskIds, r \in {"noTaskId", "http", "transport"} : SubmitFail(t, r, OneFaults)
  \/ \E t \in TaskIds, r \in PollResponses : Poll(t, r, OnePolls)
  \/ \E t \in TaskIds : EnsureDirFail(t, OneFaults)
  \/ \E t \in TaskIds : DownloadFail(t, OneFaults)
  \/ \E t \in TaskIds : EnsureDirOk(t)
  \/ \E t \in TaskIds : DownloadOk(t)
  \/ \E t \in TaskIds : Finish(t)
  \/ EngineInit
  \/ EngineInitDefault
  \/ Restart

\* A fresh installation: no config.json yet.
InitOne ==
  /\ phase = "booting"
  /\ tasksFile = <<>>
  /\ logFiles = [t \in TaskIds |-> <<>>]
  /\ configFile = <<>>
  /\ queue = <<>>
  /\ activeCount = 0
  /\ maxConcurrency = DefaultConcurrency
  /\ initPc = "start"
  /\ dbMutex = <<RecoverOp>>
  /\ reqs = [t \in TaskIds |-> NoReq]
  /\ pipe = [t \in TaskIds |-> IdlePipe]
  /\ nextId = 1
  /\ rejected = <<>>
  /\ returned = [t \in TaskIds |-> <<>>]
  /\ posts = 0
  /\ faults = 0
  /\ restarts = 0
  /\ dbChain = <<>>
  /\ dbCalls = <<>>
  /\ listed = <<>>
  /\ cfgGets = <<>>
  /\ cfgSaved = <<>>

SpecOne == InitOne /\ [][NextOne]_vars

\* SpecValidate: ValidateTasks accepted submissions drawn from WideRequests,
\* each rejected submission answered 400.
NextValidate ==
  \/ \E r \in WideRequests : SubmitTask(r, ValidateTasks)
  \/ RecoverState
  \/ AddTaskDone
  \/ UpdateTaskDone
  \/ GetTasksDone
  \/ \E t \in TaskIds : UploadOk(t)
  \/ \E t \in TaskIds : SubmitOk(t)
  \/ \E t \in TaskIds, r \in EnginePolls : Poll(t, r, 0)
  \/ \E t \in TaskIds : EnsureDirOk(t)
  \/ \E t \in TaskIds : DownloadOk(t)
  \/ \E t \in TaskIds : Finish(t)
  \/ EngineInit
  \/ EngineInitDefault

SpecValidate == InitOne /\ [][NextValidate]_vars

\* SpecFs: FsTasks submissions whose pipelines meet a 4xx poll answer and
\* up to FsFaults rejections of DB.updateTask.
NextFs ==
  \/ \E r \in EngineRequests : SubmitTask(r, FsTasks)
  \/ RecoverState
  \/ AddTaskDone
  \/ UpdateTaskDone
  \/ UpdateTaskFail(FsFaults)
  \/ GetTasksDone
  \/ \E t \in TaskIds : UploadOk(t)
  \/ \E t \in TaskIds : SubmitOk(t)
  \/ \E t \in TaskIds, r \in EnginePolls : Poll(t, r, 0)
  \/ \E t \in TaskIds : EnsureDirOk(t)
  \/ \E t \in TaskIds : DownloadOk(t)
  \/ \E t \in TaskIds : Finish(t)
  \/ EngineInit
  \/ EngineInitDefault

SpecFs == InitOne /\ [][NextFs]_vars

\* SpecList: ListSubmits submissions, MaxLists calls of GET /api/tasks at any
\* moment, and restarts.
NextList ==
  \/ \E r \in EngineRequests : SubmitTask(r, ListSubmits)
  \/ RecoverState
  \/ AddTaskDone
  \/ UpdateTaskDone
  \/ GetTasksDone
  \/ ListTasks
  \/ ListTasksDone
  \/ \E t \in TaskIds : UploadOk(t)
  \/ \E t \in TaskIds : SubmitOk(t)
  \/ \E t \in TaskIds, r \in EnginePolls : Poll(t, r, 0)
  \/ \E t \in TaskIds : EnsureDirOk(t)
  \/ \E t \in TaskIds : DownloadOk(t)
  \/ \E t \in TaskIds : Finish(t)
  \/ EngineInit
  \/ EngineInitDefault
  \/ Restart

SpecList == InitOne /\ [][NextList]_vars

\* SpecPayload: PayloadTasks submissions drawn from PayloadRequests, run up
\* to the submission of the payload.
NextPayload ==
  \/ \E r \in PayloadRequests : SubmitTask(r, PayloadTasks)
  \/ RecoverState
  \/ AddTaskDone
  \/ UpdateTaskDone
  \/ \E t \in TaskIds : UploadOk(t)
  \/ EngineInit
  \/ EngineInitDefault

SpecPayload == InitOne /\ [][NextPayload]_vars

\* SpecCounter: the events of SpecFs under every configured limit.
SpecCounter == Init /\ [][NextFs]_vars

\* SpecLive: LiveTasks submissions whose pipelines all end, and a posted
\* limit that may be 0 (req.body.concurrency is not validated); every event of
\* the server itself is weakly fair, the requests of the clients are not.
LiveLimits == 0..MaxLimit

NextLive ==
  \/ \E r \in EngineRequests : SubmitTask(r, LiveTasks)
  \/ RecoverState
  \/ AddTaskDone
  \/ UpdateTaskDone
  \/ GetTasksDone
  \/ SaveConfigDone
  \/ \E t \in TaskIds : UploadOk(t)
  \/ \E t \in TaskIds : SubmitOk(t)
  \/ \E t \in TaskIds, r \in EnginePolls : Poll(t, r, 0)
  \/ \E t \in TaskIds : EnsureDirOk(t)
  \/ \E t \in TaskIds : DownloadOk(t)
  \/ \E t \in TaskIds : Finish(t)
  \/ \E n \in LiveLimits : ConfigPost(n)
  \/ EngineInit
  \/ EngineInitDefault

FairLive ==
  /\ WF_vars(RecoverState) /\ WF_vars(AddTaskDone) /\ WF_vars(UpdateTaskDone)
  /\ WF_vars(GetTasksDone) /\ WF_vars(SaveConfigDone)
  /\ WF_vars(EngineInit) /\ WF_vars(EngineInitDefault)
  /\ \A t \in TaskIds :
       /\ WF_vars(UploadOk(t)) /\ WF_vars(SubmitOk(t))
       /\ WF_vars(\E r \in EnginePolls : Poll(t, r, 0))
       /\ WF_vars(EnsureDirOk(t)) /\ WF_vars(DownloadOk(t)) /\ WF_vars(Finish(t))

SpecLive == Init /\ [][NextLive]_vars /\ FairLive

\* SpecConfig: a fresh installation, one POST /api/config and MaxGets calls
\* of GET /api/config at any moment, beside the getConfig of init.
NextConfig ==
  \/ RecoverState
  \/ EngineInit
  \/ EngineInitDefault
  \/ \E n \in Limits : ConfigPost(n)
  \/ SaveConfigDone
  \/ GetConfig
  \/ \E k \in 1..MaxGets : GetConfigRead(k)
  \/ \E k \in 1..MaxGets : GetConfigDefault(k)

SpecConfig == InitOne /\ [][NextConfig]_vars

(* ---------------- the DB class at the grain of its file I/O ------------- *)
\* The record submitTask passes to DB.addTask.
DbRecord(id) ==
  [id |-> id, type |-> "HAIRSTYLE EXTRACTION", status |-> "pending",
   model |-> "nano-banana", inputImages |-> <<>>, outputImages |-> <<>>, logs |-> <<>>,
   startTime |-> "time", endTime |-> NoVal, duration |-> NoVal,
   geekai_task_id |-> NoVal, error_message |-> NoVal]

\* The updates executeTask passes to DB.updateTask.
DbUpdates ==
  { [status |-> "processing"],
    [geekai_task_id |-> "remote"],
    [status |-> "failed", endTime |-> "time", error_message |-> "API Error"] }

DbIds == 1..2

\* What the body of a DB call makes of the list it has read.
DbApply(tasks, op) ==
  CASE op.kind = "addTask" -> addTaskBody(tasks, op.arg)
    [] op.kind = "updateTask" -> updateTaskBody(tasks, op.id, op.arg)
    [] op.kind = "recoverState" -> recoverStateBody(tasks)
    [] OTHER -> tasks

\* Whether the body writes tasks.json: addTask always, updateTask if it found
\* the record, recoverState if it modified one.
DbWrites(tasks, op) ==
  CASE op.kind = "addTask" -> TRUE
    [] op.kind = "updateTask" -> \E k \in 1..Len(tasks) : tasks[k].id = op.id
    [] op.kind = "recoverState" ->
         \E k \in 1..Len(tasks) : tasks[k].status \in {"pending", "processing"}
    [] OTHER -> FALSE

\* Without the chain: a task starts as soon as it is passed to run.
MutexGrantsAll(chain, k) == TRUE

\* Mutex.run, `this.queue.then(task)`: a task starts when every task chained
\* before it has settled.
MutexGrants(chain, k) == k = 1

DbRest ==
  <<phase, logFiles, configFile, queue, activeCount, maxConcurrency, initPc, dbMutex,
    reqs, pipe, nextId, rejected, returned, posts, faults, restarts,
    listed, cfgGets, cfgSaved>>

\* A caller calls DB.addTask, DB.updateTask or DB.recoverState.
DbCall(op) ==
  /\ Len(dbCalls) < MaxDbCalls
  /\ dbChain' = Append(dbChain, [op |-> op, snap |-> <<>>])
  /\ dbCalls' = Append(dbCalls, op)
  /\ UNCHANGED <<DbRest, tasksFile>>

DbCallAddTask ==
  LET n == 1 + Cardinality({k \in 1..Len(dbCalls) : dbCalls[k].kind = "addTask"})
  IN /\ n \in DbIds
     /\ DbCall([kind |-> "addTask", id |-> n, arg |-> DbRecord(n)])

DbCallUpdateTask(t, updates) == DbCall([kind |-> "updateTask", id |-> t, arg |-> updates])

DbCallRecoverState == DbCall(RecoverOp)

\* The task's fs.readJSON(TASKS_FILE) resolves.
DbRead(k) ==
  /\ k \in 1..Len(dbChain)
  /\ MutexGrants(dbChain, k)
  /\ dbChain[k].snap = <<>>
  /\ dbChain' = [dbChain EXCEPT ![k].snap = <<tasksFile>>]
  /\ UNCHANGED <<DbRest, tasksFile, dbCalls>>

\* The task modifies what it read, its fs.writeJSON resolves and it settles.
DbWrite(k) ==
  /\ k \in 1..Len(dbChain)
  /\ MutexGrants(dbChain, k)
  /\ dbChain[k].snap # <<>>
  /\ LET tasks == dbChain[k].snap[1]
         op == dbChain[k].op
     IN tasksFile' = IF DbWrites(tasks, op) THEN DbApply(tasks, op) ELSE tasksFile
  /\ dbChain' = SubSeq(dbChain, 1, k - 1) \o SubSeq(dbChain, k + 1, Len(dbChain))
  /\ UNCHANGED <<DbRest, dbCalls>>

NextDb ==
  \/ DbCallAddTask
  \/ \E t \in DbIds, u \in DbUpdates : DbCallUpdateTask(t, u)
  \/ DbCallRecoverState
  \/ \E k \in 1..MaxDbCalls : DbRead(k)
  \/ \E k \in 1..MaxDbCalls : DbWrite(k)

SpecDb == InitOne /\ [][NextDb]_vars

(* ------------------------------- claims -------------------------------- *)
Terminal == {"completed", "failed"}
PipelinePcs ==
  {"starting", "upload", "submit", "savingRemote", "poll", "ensureDir", "download",
   "duration",
   "completing", "finalLog", "failing"}

\* The pipeline of t was started by processQueue and its .finally has not run.
Running(p, t) == p[t].pc \in PipelinePcs
NRunning(p) == Cardinality({t \in TaskIds : Running(p, t)})
Started(t) == pipe[t].pc \in PipelinePcs \cup {"done"}

HasRecord(tasks, t) == \E k \in 1..Len(tasks) : tasks[k].id = t
RecordOf(tasks, t) == tasks[CHOOSE k \in 1..Len(tasks) : tasks[k].id = t]
StatusIn(tasks, t) == IF HasRecord(tasks, t) THEN RecordOf(tasks, t).status ELSE "absent"
Range(f) == {f[x] : x \in DOMAIN f}

\* C1: while the limit is unchanged and was respected, the number of running
\* pipelines stays at most the limit; a pipeline starts only within the limit
\* in force, and when the slots were all taken only in the step in which a
\* running pipeline ended with its record completed or failed.
C1_BoundedConcurrency ==
  [][ /\ (maxConcurrency' = maxConcurrency /\ NRunning(pipe) <= maxConcurrency)
           => NRunning(pipe') <= maxConcurrency
      /\ \A t \in TaskIds :
           (~Running(pipe, t) /\ Running(pipe', t)) =>
             /\ NRunning(pipe') <= maxConcurrency'
             /\ NRunning(pipe) >= maxConcurrency' =>
                  \E u \in TaskIds : /\ Running(pipe, u) /\ ~Running(pipe', u)
                                     /\ StatusIn(tasksFile', u) \in Terminal
    ]_vars

\* The limit is 2, two pipelines run and the third task waits in the queue.
C1_Witness ==
  /\ maxConcurrency = 2 /\ initPc = "done"
  /\ NRunning(pipe) = 2
  /\ pipe[3].pc = "queued"

Rank(st) ==
  CASE st = "absent" -> 0
    [] st = "pending" -> 1
    [] st = "processing" -> 2
    [] st \in Terminal -> 3

\* C2: the status of a record only moves forward along pending, processing,
\* completed | failed (recovery takes a pending record straight to failed),
\* and a completed or failed record keeps its status in every later step.
C2_StatusForwardOnly ==
  [][ \A t \in TaskIds :
        LET a == StatusIn(tasksFile, t)
            b == StatusIn(tasksFile', t)
        IN /\ a \in Terminal => b = a
           /\ Rank(b) >= Rank(a)
           /\ (a # b /\ b = "pending") => a = "absent"
           /\ (a # b /\ b = "processing") => a = "pending"
           /\ (a # b /\ b = "completed") => a = "processing"
           /\ (a # b /\ b = "failed") => (a = "processing" \/ (a = "pending" /\ phase = "booting"))
    ]_vars

\* After a restart and its recovery: a completed record next to a recovered one.
C2_Witness ==
  /\ restarts = 1 /\ phase = "serving"
  /\ \E t, u \in TaskIds :
       /\ StatusIn(tasksFile, t) = "completed"
       /\ StatusIn(tasksFile, u) = "failed"
       /\ RecordOf(tasksFile, u).error_message = RestartMsg

\* A step that ends with a call of processQueue.
AdmissionCheck ==
  \/ AddTaskDone
  \/ SaveConfigDone
  \/ \E t \in TaskIds : pipe[t].pc \in {"finalLog", "failing"} /\ pipe'[t].pc = "done"

\* C3: after every admission check the queue is empty or the in-flight
\* counter has reached the limit.
C3_AdmissionFillsSlots ==
  [][ AdmissionCheck => (Len(queue') = 0 \/ activeCount' >= maxConcurrency') ]_vars

\* C4: task ids are given in the order of the submitTask calls; a task's
\* pipeline has started only if the pipeline of every earlier task has, and
\* its record has left pending only if every earlier record has.
C4_FifoAdmission ==
  \A a, b \in TaskIds :
    a < b =>
      /\ Started(b) => Started(a)
      /\ StatusIn(tasksFile, b) \in {"processing"} \cup Terminal
           => StatusIn(tasksFile, a) \in {"processing"} \cup Terminal

\* Limit 1: task 1 is done, task 2 runs, task 3 still waits behind it.
C4_Witness ==
  /\ maxConcurrency = 1
  /\ pipe[1].pc = "done" /\ Running(pipe, 2) /\ pipe[3].pc = "queued"
  /\ StatusIn(tasksFile, 2) = "processing" /\ StatusIn(tasksFile, 3) = "pending"

\* C5: once the status endpoint has answered failed, polling has stopped and
\* the failed update carrying the remote's reason is on its way.
C5_RemoteFailureStopsPolling ==
  \A t \in TaskIds :
    pipe[t].res = "failed" =>
      /\ pipe[t].pc = "failing"
      /\ \E k \in 1..Len(dbMutex) :
           /\ dbMutex[k].kind = "updateTask" /\ dbMutex[k].id = t
           /\ "status" \in DOMAIN dbMutex[k].arg
           /\ dbMutex[k].arg.status = "failed"

\* C6: after a 4xx answer the pipeline is out of the poll loop with the failed
\* update queued, and the record of a pipeline that logged the fatal error is
\* failed with that message; after any other error the pipeline is still
\* polling and the record is still processing.
C6_PollErrors ==
  \A t \in TaskIds :
    /\ pipe[t].res = "e4xx" =>
         /\ pipe[t].pc = "failing"
         /\ \E k \in 1..Len(dbMutex) :
              /\ dbMutex[k].kind = "updateTask" /\ dbMutex[k].id = t
              /\ "status" \in DOMAIN dbMutex[k].arg
              /\ dbMutex[k].arg.status = "failed"
              /\ dbMutex[k].arg.error_message \in {"API Error", "task not found"}
    /\ \A m \in {"API Error", "task not found"} :
         (pipe[t].pc = "done" /\ ("Polling Fatal Error: " \o m) \in Range(logFiles[t])) =>
           /\ StatusIn(tasksFile, t) = "failed"
           /\ RecordOf(tasksFile, t).error_message = m
    /\ pipe[t].res \in {"e5xx", "timeout"} =>
         /\ pipe[t].pc = "poll"
         /\ StatusIn(tasksFile, t) = "processing"

\* OnePolls transient errors in a row and the pipeline still polls.
C6_Witness ==
  \E t \in TaskIds :
    /\ pipe[t].res = "e5xx" /\ pipe[t].pollCount = OnePolls
    /\ pipe[t].pc = "poll"
    /\ StatusIn(tasksFile, t) = "processing"

\* The roles a stage requires, in the documented order.
RequiredRoles(stage) ==
  CASE stage = HAIRSTYLE_EXTRACTION -> <<"hair-ref", "hair-mannequin">>
    [] stage = DOLL_ASSEMBLY -> <<"asm-hair", "asm-body", "asm-cloth">>
    [] stage = DOLL_REPLACEMENT -> <<"rep-ref", "rep-prod">>

Count(imgs, c) == Cardinality({k \in 1..Len(imgs) : imgs[k].category = c})

ViolatesRules(r) ==
  \/ r.settings.geekaiApiKey = "" \/ r.model = "" \/ r.size = "" \/ r.aspect_ratio = ""
  \/ \E k \in 1..Len(RequiredRoles(r.stage)) :
       Count(r.input_images, RequiredRoles(r.stage)[k]) # 1

\* C7: a submitTask call with a request that violates a rule is answered with
\* an error and changes neither the task store, the queue, the in-flight
\* counter, the log files nor anything else of the engine.
C7_InvalidLeavesNoTrace ==
  [][ (nextId' # nextId \/ rejected' # rejected) =>
        \A r \in WideRequests :
          (ViolatesRules(r) /\ SubmitTask(r, ValidateTasks)) =>
            /\ Len(rejected') = Len(rejected) + 1
            /\ rejected'[Len(rejected')].req = r
            /\ rejected'[Len(rejected')].message # NoVal
            /\ UNCHANGED <<tasksFile, logFiles, queue, activeCount, dbMutex, pipe, reqs,
                           nextId, returned>>
    ]_vars

\* Two references and no mannequin for hairstyle_extraction were rejected.
C7_Witness ==
  /\ Len(rejected) = 1
  /\ rejected[1].req.stage = HAIRSTYLE_EXTRACTION
  /\ Count(rejected[1].req.input_images, "hair-ref") = 2
  /\ Count(rejected[1].req.input_images, "hair-mannequin") = 0
  /\ tasksFile = <<>> /\ queue = <<>> /\ activeCount = 0
  /\ \A t \in TaskIds : logFiles[t] = <<>>

StageOfType(type) == CHOOSE st \in WorkflowStage : TypeOf(st) = type
Cats(imgs) == [k \in 1..Len(imgs) |-> imgs[k].category]

\* C8: the inputImages of every task record are the roles of its stage, one
\* each, in the documented order, and the request the pipeline works on holds
\* the same images.
C8_NormalizedOrder ==
  \A k \in 1..Len(tasksFile) :
    LET r == tasksFile[k] IN
    /\ Cats(r.inputImages) = RequiredRoles(StageOfType(r.type))
    /\ reqs[r.id] # NoReq => reqs[r.id].input_images = r.inputImages

\* A doll_assembly record whose images were supplied in another order, after
\* the pipeline has uploaded all three.
C8_Witness ==
  \E k \in 1..Len(tasksFile) :
    LET r == tasksFile[k] IN
    /\ r.type = "DOLL ASSEMBLY"
    /\ r.inputImages[1].id = 3 /\ r.inputImages[3].id = 1
    /\ Len(pipe[r.id].links) = 3

\* C9: the step in which recoverState completes keeps the list's length and
\* order, turns each pending or processing record into the same record with
\* status failed, an end time and the restart message, and leaves every
\* other record as it is.
C9_RecoveryFrame ==
  [][ (phase = "booting" /\ phase' = "serving") =>
        /\ Len(tasksFile') = Len(tasksFile)
        /\ \A k \in 1..Len(tasksFile) :
             LET r == tasksFile[k]
                 r2 == tasksFile'[k]
             IN IF r.status \in {"pending", "processing"}
                THEN /\ r2.status = "failed"
                     /\ r2.error_message = RestartMsg
                     /\ r2.endTime # NoVal
                     /\ \A f \in DOMAIN r \ {"status", "endTime", "error_message"} :
                          r2[f] = r[f]
                     /\ DOMAIN r2 = DOMAIN r
                ELSE r2 = r
    ]_vars

\* Recovery has failed a record that was processing with its remote id
\* persisted, and the older record on the list is completed.
C9_Witness ==
  /\ restarts = 1 /\ phase = "serving"
  /\ Len(tasksFile) = 2
  /\ tasksFile[1].status = "failed" /\ tasksFile[1].error_message = RestartMsg
  /\ tasksFile[1].geekai_task_id # NoVal
  /\ tasksFile[2].status = "completed"

\* C10: a completed record has one output image, an end time, a duration and
\* no error message; a failed one a non-empty error message, an end time and
\* no output image; a pending or processing one none of the three.
C10_RecordShape ==
  \A k \in 1..Len(tasksFile) :
    LET r == tasksFile[k] IN
    /\ r.status = "completed" =>
         /\ Len(r.outputImages) = 1 /\ r.endTime # NoVal /\ r.duration # NoVal
         /\ r.error_message = NoVal
    /\ r.status = "failed" =>
         /\ r.error_message # NoVal /\ r.error_message # ""
         /\ r.endTime # NoVal /\ r.outputImages = <<>>
    /\ r.status \in {"pending", "processing"} =>
         /\ r.outputImages = <<>> /\ r.endTime = NoVal /\ r.error_message = NoVal

\* A record failed by its own pipeline after the status endpoint answered 4xx
\* without a message.
C10_Witness ==
  \E k \in 1..Len(tasksFile) :
    /\ tasksFile[k].status = "failed"
    /\ tasksFile[k].error_message = "API Error"
    /\ tasksFile[k].geekai_task_id # NoVal

UploadingLine(img, n) == "Uploading " \o img.name \o " (Attempt " \o ToString(n) \o "/3)..."
AttemptFailedLine(n) == "Upload attempt " \o ToString(n) \o " failed: connect ETIMEDOUT"
ImageNames == {"img" \o ToString(k) : k \in 1..MaxImages}
GaveUpLine(name) == "CRITICAL FAILURE: OSS Upload Failed for " \o name \o ": connect ETIMEDOUT"
GaveUpMessage(name) == "OSS Upload Failed for " \o name \o ": connect ETIMEDOUT"
LastOf(log) == IF log = <<>> THEN NoVal ELSE log[Len(log)]

\* Once the third attempt of an image failed: the failure line naming the file
\* is the last line of the log (no later image, no submit), the failed update
\* with that message is queued or has been written.
UploadGaveUp(t) ==
  \A name \in ImageNames :
    GaveUpLine(name) \in Range(logFiles[t]) =>
      /\ LastOf(logFiles[t]) = GaveUpLine(name)
      /\ "Submitting task to GeekAI API..." \notin Range(logFiles[t])
      /\ pipe[t].pc \in {"failing", "done", "dead"}
      /\ pipe[t].pc = "failing" =>
           \E k \in 1..Len(dbMutex) :
             /\ dbMutex[k].kind = "updateTask" /\ dbMutex[k].id = t
             /\ dbMutex[k].arg = [status |-> "failed", endTime |-> "time",
                                  error_message |-> GaveUpMessage(name)]
      /\ pipe[t].pc = "done" =>
           /\ StatusIn(tasksFile, t) = "failed"
           /\ RecordOf(tasksFile, t).error_message = GaveUpMessage(name)

\* C11: a put that succeeds does so after k < 3 failed attempts of that image,
\* whose k "attempt failed" lines close the log between the attempt lines, and
\* the pipeline goes on; a put that fails gives up only at the third attempt,
\* and then the task fails naming the file, with no later upload and no submit.
C11_UploadRetry ==
  [][ \A t \in TaskIds :
        /\ UploadGaveUp(t) /\ UploadGaveUp(t)'
        /\ pipe[t].pc = "upload" =>
             LET k == pipe[t].i
                 img == ImagesOf(t)[pipe[t].img]
                 log == logFiles[t]
                 n == Len(log)
             IN /\ (Len(pipe'[t].links) = Len(pipe[t].links) + 1) =>
                     /\ k < UploadAttempts
                     /\ n >= 2 * k + 1
                     /\ \A j \in 1..k :
                          /\ log[n - 2 * k + 2 * (j - 1)] = UploadingLine(img, j)
                          /\ log[n - 2 * k + 2 * j - 1] = AttemptFailedLine(j)
                     /\ log[n] = UploadingLine(img, k + 1)
                     /\ pipe'[t].pc \in {"upload", "submit"}
                     /\ SubSeq(logFiles'[t], 1, n) = log
                /\ pipe'[t].pc = "failing" =>
                     /\ k = UploadAttempts - 1
                     /\ LastOf(logFiles'[t]) = GaveUpLine(img.name)
    ]_vars

\* The second image went through at its third attempt and the pipeline is
\* past the transfer step.
C11_Witness ==
  \E t \in TaskIds :
    /\ AttemptFailedLine(2) \in Range(logFiles[t])
    /\ "Uploading img1 (Attempt 3/3)..." \in Range(logFiles[t])
    /\ "OSS upload completed successfully." \in Range(logFiles[t])
    /\ pipe[t].pc = "submit"

SubmitErrors ==
  {"API returned 200: {}", "Internal Server Error", "timeout of 600000ms exceeded"}
SubmitFailedLine(n, m) == "GeekAI API Call Attempt " \o ToString(n) \o " Failed: " \o m
SubmitFailedLines(log) ==
  {k \in 1..Len(log) :
     \E n \in 1..(SubmitAttempts + 1), m \in SubmitErrors : log[k] = SubmitFailedLine(n, m)}

\* Once the submit step gave up: polling was never started, no remote id was
\* stored and the record is failed (or about to be) with the last error.
SubmitGaveUp(t) ==
  \A m \in SubmitErrors :
    ("CRITICAL FAILURE: GeekAI Request Failed: " \o m) \in Range(logFiles[t]) =>
      /\ Cardinality(SubmitFailedLines(logFiles[t])) = SubmitAttempts
      /\ "Polling for results..." \notin Range(logFiles[t])
      /\ pipe[t].pc \in {"failing", "done", "dead"}
      /\ pipe[t].pc = "failing" =>
           \E k \in 1..Len(dbMutex) :
             /\ dbMutex[k].kind = "updateTask" /\ dbMutex[k].id = t
             /\ dbMutex[k].arg = [status |-> "failed", endTime |-> "time",
                                  error_message |-> "GeekAI Request Failed: " \o m]
      /\ pipe[t].pc = "done" =>
           /\ StatusIn(tasksFile, t) = "failed"
           /\ RecordOf(tasksFile, t).error_message = "GeekAI Request Failed: " \o m

\* C12: the post in flight is the first, second or third of its task; every
\* answer that is not a 200 with a task id (a 200 without one, an error
\* status, no answer) adds one failed attempt; the third failed attempt fails
\* the task without polling; after an accepted post the pipeline never posts
\* again.
C12_SubmitRetry ==
  [][ \A t \in TaskIds :
        /\ SubmitGaveUp(t) /\ SubmitGaveUp(t)'
        /\ pipe[t].pc = "submit" =>
             /\ pipe[t].i < SubmitAttempts
             /\ Cardinality(SubmitFailedLines(logFiles[t])) = pipe[t].i
             /\ pipe'[t].pc \in {"submit", "savingRemote", "failing", "dead"}
             /\ (pipe'[t].pc = "submit" /\ pipe'[t] # pipe[t]) =>
                  /\ pipe'[t].i = pipe[t].i + 1
                  /\ Cardinality(SubmitFailedLines(logFiles'[t])) = pipe[t].i + 1
             /\ pipe'[t].pc = "failing" =>
                  /\ pipe[t].i = SubmitAttempts - 1
                  /\ Cardinality(SubmitFailedLines(logFiles'[t])) = SubmitAttempts
        /\ pipe'[t].pc = "submit" => pipe[t].pc \in {"upload", "submit"}
        /\ (pipe[t].pc = "upload" /\ pipe'[t].pc = "submit") => pipe'[t].i = 0
    ]_vars

\* A task failed by three failed posts, the first of them a 200 that carried
\* no task id, the last one a transport error.
C12_Witness ==
  \E t \in TaskIds :
    /\ SubmitFailedLine(1, "API returned 200: {}") \in Range(logFiles[t])
    /\ SubmitFailedLine(3, "timeout of 600000ms exceeded") \in Range(logFiles[t])
    /\ StatusIn(tasksFile, t) = "failed"
    /\ RecordOf(tasksFile, t).error_message
         = "GeekAI Request Failed: timeout of 600000ms exceeded"
    /\ RecordOf(tasksFile, t).geekai_task_id = NoVal

\* The line each step of executeTask writes when it begins (the last two:
\* when the download and the finalisation have succeeded).
StepMarkers(t) ==
  << "Starting upload of 2 images to Aliyun OSS...",
     "OSS upload completed successfully.",
     "Constructing API payload...",
     "Submitting task to GeekAI API...",
     "Polling for results...",
     "Downloading result...",
     "Image saved to ./output/gen_" \o ToString(t) \o ".jpg",
     "Task completed." >>
PositionsOf(log, line) == {k \in 1..Len(log) : log[k] = line}

\* The messages with which each step can fail.
TransferFailures == {"OSS Configuration incomplete"} \cup {GaveUpMessage(n) : n \in ImageNames}
SubmitFailures == {"GeekAI Request Failed: " \o m : m \in SubmitErrors}
PollFailures == {"API Error", "task not found"}
DownloadFailures == {"EACCES: permission denied, mkdir"}
StepFailures == TransferFailures \cup SubmitFailures \cup PollFailures \cup DownloadFailures

FailedUpdateQueued(t, m) ==
  \E k \in 1..Len(dbMutex) :
    /\ dbMutex[k].kind = "updateTask" /\ dbMutex[k].id = t
    /\ dbMutex[k].arg = [status |-> "failed", endTime |-> "time", error_message |-> m]

\* The markers of a log are in the order of the steps, each at most once and
\* none without all earlier ones; after a failure line nothing was logged,
\* and the record is failed with that message or the update is queued.
StepTrace(t) ==
  LET log == logFiles[t]
      M == StepMarkers(t)
  IN /\ \A j \in 1..Len(M) : Cardinality(PositionsOf(log, M[j])) <= 1
     /\ \A j \in 2..Len(M) :
          PositionsOf(log, M[j]) # {} =>
            \E a \in PositionsOf(log, M[j - 1]), b \in PositionsOf(log, M[j]) : a < b
     /\ \A m \in StepFailures :
          ("CRITICAL FAILURE: " \o m) \in Range(log) =>
            /\ LastOf(log) = "CRITICAL FAILURE: " \o m
            /\ pipe[t].pc \in {"failing", "done", "dead"}
            /\ pipe[t].pc = "failing" => FailedUpdateQueued(t, m)
            /\ pipe[t].pc = "done" =>
                 /\ StatusIn(tasksFile, t) = "failed"
                 /\ RecordOf(tasksFile, t).error_message = m

RemoteId(t) == "remote-" \o ToString(t)

\* The remote id of t's record against the progress of t's pipeline.
RemoteIdShape(t) ==
  LET id == RecordOf(tasksFile, t).geekai_task_id
      log == logFiles[t]
  IN /\ id \in {NoVal, RemoteId(t)}
     /\ pipe[t].pc \in {"adding", "queued", "starting", "upload", "submit", "savingRemote"}
          => id = NoVal
     /\ pipe[t].pc = "savingRemote" =>
          \E k \in 1..Len(dbMutex) :
            /\ dbMutex[k].kind = "updateTask" /\ dbMutex[k].id = t
            /\ dbMutex[k].arg = [geekai_task_id |-> RemoteId(t)]
     /\ (pipe[t].pc \in {"poll", "ensureDir", "download", "duration", "completing", "finalLog"}
         \/ "Polling for results..." \in Range(log))
          => id = RemoteId(t)
     /\ (\E m \in TransferFailures \cup SubmitFailures :
           ("CRITICAL FAILURE: " \o m) \in Range(log))
          => id = NoVal
     /\ (\E m \in PollFailures \cup DownloadFailures :
           ("CRITICAL FAILURE: " \o m) \in Range(log))
          => id = RemoteId(t)

\* C15: a record carries no remote id before its submit step succeeded, the
\* id is queued for writing when it succeeds and is on the record when
\* polling starts; once on the record it stays, through a failure of poll or
\* download and through recovery; a task that failed in transfer or submit
\* has none.
C15_RemoteId ==
  [][ \A t \in TaskIds :
        /\ HasRecord(tasksFile', t) => RemoteIdShape(t)'
        /\ (HasRecord(tasksFile, t) /\ RecordOf(tasksFile, t).geekai_task_id # NoVal) =>
             RecordOf(tasksFile', t).geekai_task_id = RecordOf(tasksFile, t).geekai_task_id
    ]_vars

\* The poll step failed with a 4xx and the failed record still has the id.
C15_Witness ==
  \E t \in TaskIds :
    /\ StatusIn(tasksFile, t) = "failed"
    /\ RecordOf(tasksFile, t).error_message = "task not found"
    /\ RecordOf(tasksFile, t).geekai_task_id = RemoteId(t)

DownloadFailedLine == "Download failed (retrying): socket hang up"

\* C16: a failed GET of the result leaves the pipeline in the download step
\* with its record processing and no update issued, whatever the number of
\* earlier failures; the download step is never left towards the catch; and
\* once a GET succeeded the task is finalised and its record completed.
C16_DownloadRetry ==
  [][ \A t \in TaskIds :
        /\ pipe[t].pc = "download" =>
             /\ pipe'[t].pc \in {"download", "duration", "dead"}
             /\ StatusIn(tasksFile, t) = "processing"
             /\ (pipe'[t].pc = "download" /\ logFiles'[t] # logFiles[t]) =>
                  /\ logFiles'[t] = Append(logFiles[t], DownloadFailedLine)
                  /\ tasksFile' = tasksFile /\ dbMutex' = dbMutex
        /\ pipe[t].pc = "duration" => pipe'[t].pc \in {"duration", "completing", "dead"}
        /\ pipe[t].pc = "completing" => pipe'[t].pc \in {"completing", "finalLog", "dead"}
        /\ pipe'[t].pc = "finalLog" => StatusIn(tasksFile', t) = "completed"
        /\ (pipe[t].pc = "finalLog" /\ pipe'[t].pc = "done") =>
             StatusIn(tasksFile', t) = "completed"
    ]_vars

\* OneFaults failed GETs, then a successful one: the record is completed.
C16_Witness ==
  \E t \in TaskIds :
    /\ Cardinality(PositionsOf(logFiles[t], DownloadFailedLine)) = OneFaults
    /\ pipe[t].pc = "done"
    /\ StatusIn(tasksFile, t) = "completed"

HasFailureLine(t) ==
  \E m \in StepFailures \cup {FsError} : ("CRITICAL FAILURE: " \o m) \in Range(logFiles[t])

\* C17: a pipeline that logged its failure line and ended has its record
\* failed, and its error did not leave executeTask.
C17_ErrorsCaught ==
  \A t \in TaskIds :
    (pipe[t].pc = "done" /\ HasFailureLine(t)) =>
      /\ StatusIn(tasksFile, t) = "failed"
      /\ pipe[t].res # "unhandledRejection"

InQueue(q, t) == \E k \in 1..Len(q) : q[k] = t

\* C18: a task that is queued or whose pipeline has started has its record in
\* the store; in the step in which submitTask enqueues it and returns, the
\* stored record is pending and is the record returned, also when the same
\* call admitted the task.
C18_PendingFirst ==
  [][ \A t \in TaskIds :
        /\ (InQueue(queue', t) \/ Running(pipe', t)) => HasRecord(tasksFile', t)
        /\ returned'[t] # returned[t] =>
             /\ returned[t] = <<>> /\ Len(returned'[t]) = 1
             /\ pipe'[t].pc \in {"queued", "starting"}
             /\ returned'[t][1].status = "pending"
             /\ returned'[t][1].id = t
             /\ HasRecord(tasksFile', t)
             /\ RecordOf(tasksFile', t) = returned'[t][1]
        /\ (returned[t] = <<>> /\ returned'[t] = <<>>) =>
             /\ ~InQueue(queue', t)
             /\ ~Running(pipe', t)
    ]_vars

\* submitTask has returned the pending record of a task that the same call
\* admitted: its pipeline is already started.
C18_Witness ==
  \E t \in TaskIds :
    /\ returned[t] # <<>>
    /\ returned[t][1].status = "pending"
    /\ pipe[t].pc = "starting"
    /\ StatusIn(tasksFile, t) = "pending"
    /\ activeCount >= 1

\* The list after the first n calls have run one after another in call order.
RECURSIVE ApplyInOrder(_, _)
ApplyInOrder(calls, n) ==
  IF n = 0 THEN <<>>
  ELSE LET before == ApplyInOrder(calls, n - 1)
       IN IF DbWrites(before, calls[n]) THEN DbApply(before, calls[n]) ELSE before

\* C19: only the task at the head of the chain has read tasks.json and not
\* yet settled, and tasks.json is what the settled calls make of the empty
\* list when run one after another in call order.
C19_Serialized ==
  /\ \A k \in 1..Len(dbChain) : dbChain[k].snap # <<>> => k = 1
  /\ tasksFile = ApplyInOrder(dbCalls, Len(dbCalls) - Len(dbChain))

\* Updates of two different records are chained at the same time: the first
\* has read tasks.json and not yet written, the second waits behind it.
C19_Witness ==
  /\ Len(dbChain) >= 2
  /\ dbChain[1].op.kind = "updateTask" /\ dbChain[2].op.kind = "updateTask"
  /\ dbChain[1].op.id # dbChain[2].op.id
  /\ dbChain[1].snap # <<>> /\ dbChain[2].snap = <<>>
  /\ HasRecord(tasksFile, 1) /\ HasRecord(tasksFile, 2)

\* C20: the step that lowers the limit below the number of running pipelines
\* changes nothing but the limit (and config.json); a running pipeline ends
\* only by its own completed or failed record; and a task is admitted only
\* into a state with at most the limit in force running.
C20_NoPreemption ==
  [][ /\ (SaveConfigDone /\ maxConcurrency' < NRunning(pipe)) =>
           /\ pipe' = pipe /\ tasksFile' = tasksFile /\ logFiles' = logFiles
           /\ queue' = queue /\ activeCount' = activeCount
           /\ dbMutex' = Tail(dbMutex)
      /\ \A t \in TaskIds :
           /\ (Running(pipe, t) /\ ~Running(pipe', t)) =>
                /\ pipe'[t].pc = "done"
                /\ StatusIn(tasksFile', t) \in Terminal
           /\ (InQueue(queue, t) /\ ~InQueue(queue', t)) =>
                /\ Running(pipe', t)
                /\ NRunning(pipe') <= maxConcurrency'
                /\ activeCount' <= maxConcurrency'
      /\ activeCount' = NRunning(pipe')
    ]_vars

\* The limit was lowered to 1 while two pipelines run and a task is queued.
C20_Witness ==
  /\ posts = 1 /\ dbMutex = <<>>
  /\ maxConcurrency = 1 /\ NRunning(pipe) = 2 /\ activeCount = 2
  /\ Len(queue) = 1

IsPrefix(a, b) == Len(a) <= Len(b) /\ SubSeq(b, 1, Len(a)) = a

\* C21: in every step each task's log file keeps what it held as a prefix, and
\* a restart and the recovery after it leave every file as it is.
C21_LogAppendOnly ==
  [][ /\ \A t \in TaskIds : IsPrefix(logFiles[t], logFiles'[t])
      /\ (phase = "booting" \/ restarts' # restarts) => logFiles' = logFiles
    ]_vars

\* After a restart and its recovery the files of two tasks, one interrupted
\* and failed by recovery, still hold their lines.
C21_Witness ==
  /\ restarts = 1 /\ phase = "serving"
  /\ \E t, u \in TaskIds :
       /\ t # u
       /\ Len(logFiles[t]) >= 3 /\ Len(logFiles[u]) >= 3
       /\ StatusIn(tasksFile, t) = "failed"
       /\ RecordOf(tasksFile, t).error_message = RestartMsg
       /\ StatusIn(tasksFile, u) = "completed"

AfterTransferPcs ==
  {"submit", "savingRemote", "poll", "ensureDir", "download", "duration", "completing",
   "finalLog"}

LinkOf(t, k) == OssLink(SettingsOf(t), ImagesOf(t)[k])

\* C22: once the transfer step has returned, there are as many links as
\* validated input images and link k is the link of image k; while the step
\* runs, the links collected so far are those of the images before the current
\* one, in order; the links logged after the step are the same, index by index.
C22_LinksInOrder ==
  \A t \in TaskIds :
    /\ pipe[t].pc = "upload" =>
         /\ Len(pipe[t].links) = pipe[t].img - 1
         /\ \A k \in 1..Len(pipe[t].links) : pipe[t].links[k] = LinkOf(t, k)
    /\ pipe[t].pc \in AfterTransferPcs =>
         /\ Len(pipe[t].links) = Len(ImagesOf(t))
         /\ \A k \in 1..Len(ImagesOf(t)) :
              /\ pipe[t].links[k] = LinkOf(t, k)
              /\ ("OSS Link [" \o ToString(k - 1) \o "]: " \o LinkOf(t, k))
                   \in Range(logFiles[t])

\* The transfer succeeded for two images after the first needed three attempts
\* and the second two.
C22_Witness ==
  \E t \in TaskIds :
    /\ pipe[t].pc = "submit"
    /\ Len(ImagesOf(t)) = 2
    /\ LinkOf(t, 1) # LinkOf(t, 2)
    /\ UploadingLine(ImagesOf(t)[1], 3) \in Range(logFiles[t])
    /\ UploadingLine(ImagesOf(t)[2], 2) \in Range(logFiles[t])
    /\ ~ (UploadingLine(ImagesOf(t)[2], 3) \in Range(logFiles[t]))

IdsOf(tasks) == [k \in 1..Len(tasks) |-> tasks[k].id]
NewestFirst(ids) == \A j, k \in 1..Len(ids) : j < k => ids[j] > ids[k]

\* C23: task ids are handed out in the order of the createTask calls, so the
\* stored list, and the list listTasks returns from it, has the ids strictly
\* decreasing; a step either leaves the order of the ids as it is (updateTask,
\* recovery and every other step) or puts one new id in front (createTask).
C23_MostRecentFirst ==
  [][ /\ NewestFirst(IdsOf(tasksFile'))
      /\ IdsOf(getTasksBody(tasksFile', logFiles')) = IdsOf(tasksFile')
      /\ \/ IdsOf(tasksFile') = IdsOf(tasksFile)
         \/ /\ HeadIs("addTask")
            /\ IdsOf(tasksFile') = <<Head(dbMutex).id>> \o IdsOf(tasksFile)
      /\ (HeadIs("updateTask") \/ HeadIs("recoverState")) =>
           IdsOf(tasksFile') = IdsOf(tasksFile)
    ]_vars

\* Two records are stored, the newer in front; the older one was given its
\* remote id by updateTask and was then failed by recovery after a restart.
C23_Witness ==
  /\ restarts = 1 /\ phase = "serving"
  /\ Len(tasksFile) = 2
  /\ tasksFile[2].status = "failed" /\ tasksFile[2].error_message = RestartMsg
  /\ tasksFile[2].geekai_task_id # NoVal
  /\ tasksFile[1].status = "completed"

\* C24: a getTasks call that completes, whoever made it, leaves tasks.json and
\* every log file as they are; a GET /api/tasks is answered with the stored
\* records, statuses included, each with the lines of its log file, so it is
\* answered with what the call before it returned when the files still read
\* the same.
C24_ListReadOnly ==
  [][ (HeadIs("getTasks") /\ dbMutex' = Tail(dbMutex)) =>
        /\ tasksFile' = tasksFile
        /\ logFiles' = logFiles
        /\ Head(dbMutex).id = 0 =>
             /\ Len(listed') = Len(listed) + 1
             /\ LastOf(listed') = getTasksBody(tasksFile, logFiles)
             /\ \A k \in 1..Len(tasksFile) :
                  /\ LastOf(listed')[k].status = tasksFile[k].status
                  /\ LastOf(listed')[k].logs = logFiles[tasksFile[k].id]
             /\ (listed # <<>> /\ LastOf(listed) = getTasksBody(tasksFile, logFiles))
                  => LastOf(listed') = LastOf(listed)
    ]_vars

\* Two GET /api/tasks calls were answered while the pipeline of the listed
\* record was running: both show the record as processing with its log lines,
\* and the record is still processing in tasks.json.
C24_Witness ==
  /\ Len(listed) = 2
  /\ listed[1] = listed[2]
  /\ Len(listed[2]) = 1
  /\ listed[2][1].status = "processing"
  /\ Len(listed[2][1].logs) >= 3
  /\ tasksFile[1].status = "processing"

NumOps(m, kind) == Cardinality({k \in 1..Len(m) : m[k].kind = kind})
SaveConfigCompletes == NumOps(dbMutex', "saveConfig") < NumOps(dbMutex, "saveConfig")

\* What the pipeline of t has used of its settings so far: the links it built,
\* the prompt of its payload and the path it saved the result under.
UsedSettings(t, settings) ==
  /\ pipe[t].pc \in {"upload"} \cup AfterTransferPcs =>
       \A k \in 1..Len(pipe[t].links) :
         pipe[t].links[k] = OssLink(settings, reqs[t].input_images[k])
  /\ pipe[t].pc \in AfterTransferPcs =>
       ("payload " \o reqs[t].model \o " "
          \o Prompt([stage |-> reqs[t].stage, settings |-> settings]))
         \in Range(logFiles[t])
  /\ pipe[t].pc \in {"duration", "completing", "finalLog"} =>
       ("Image saved to " \o settings.workingDirectory \o "/gen_" \o ToString(t) \o ".jpg")
         \in Range(logFiles[t])

\* C25: every task is submitted with AppSettings, and whatever is posted to
\* /api/config meanwhile, its links, its prompt and its save path are those of
\* AppSettings; no step changes the request object of a task; the step in
\* which a saveConfig completes sets the limit to the posted one, leaves the
\* files and every running pipeline as they are and at most admits queued
\* tasks from the head of the queue.
C25_ConfigFrame ==
  [][ /\ \A t \in TaskIds :
           (pipe'[t] # pipe[t] \/ logFiles'[t] # logFiles[t]) =>
             UsedSettings(t, AppSettings)'
      /\ \A t \in TaskIds : reqs[t] # NoReq => reqs'[t] = reqs[t]
      /\ SaveConfigCompletes =>
           /\ maxConcurrency' = Head(dbMutex).arg
           /\ tasksFile' = tasksFile /\ logFiles' = logFiles
           /\ \/ queue' = queue /\ pipe' = pipe
              \/ /\ queue # <<>> /\ queue' = Tail(queue)
                 /\ pipe' = [pipe EXCEPT ![Head(queue)].pc = "starting"]
    ]_vars

\* A higher limit was saved while one task was running and two were queued:
\* one of the two was admitted, the other is still queued below the limit;
\* the running task has finished its transfer with the settings of its request.
C25_Witness ==
  /\ cfgSaved # <<>> /\ maxConcurrency = cfgSaved[1]
  /\ queue # <<>> /\ activeCount < maxConcurrency
  /\ \E t \in TaskIds :
       /\ pipe[t].pc \in {"duration", "completing", "finalLog"}
       /\ UsedSettings(t, AppSettings)
       /\ ~ UsedSettings(t, PostedSettings)

Doubao == {"doubao-seedream-4.5", "doubao-seedream-4.0"}

\* The payload the claim gives for a request and its links.
ClaimedPayload(req, ossLinks) ==
  LET auto == req.aspect_ratio = "Auto"
      named == req.size
      pixels == IF req.aspect_ratio \in DOMAIN PIXEL_MAP_2K
                THEN PIXEL_MAP_2K[req.aspect_ratio] ELSE "2048x2048"
  IN [model |-> req.model, image |-> ossLinks,
      prompt |->
        IF req.model \in Doubao /\ ~ (req.size = "2K") /\ ~ auto
        THEN Prompt(req) \o " --ratio " \o req.aspect_ratio ELSE Prompt(req),
      size |->
        CASE req.model \in Doubao -> IF req.size = "2K" /\ ~ auto THEN pixels ELSE named
          [] req.model \in {"nano-banana", "nano-banana-hd"} -> NoVal
          [] OTHER -> named,
      aspect_ratio |->
        IF req.model \in {"nano-banana", "nano-banana-hd", "nano-banana-2"} /\ ~ auto
        THEN req.aspect_ratio ELSE NoVal]

\* C26: the payload built for a task is the one the claim gives for its
\* request: pixel dimensions of the 2K table, or 2048x2048 for a ratio not in
\* the table, for a doubao-seedream model with size 2K and a ratio other than
\* Auto; the named size and the ratio directive in the prompt otherwise; no
\* size for nano-banana and nano-banana-hd; size only for any other model.
C26_PayloadTable ==
  \A t \in TaskIds :
    pipe[t].payload # <<>> =>
      pipe[t].payload[1] = ClaimedPayload(reqs[t], pipe[t].links)

\* C27: the in-flight counter is the number of running pipelines and is not
\* negative; in the step in which a pipeline ends, however it ends, exactly
\* that one ends, the counter goes down by one and processQueue runs on the
\* result: with a queued task and a free slot the head of the queue is started
\* and takes the slot, otherwise the queue is left as it is.
C27_CounterExact ==
  [][ /\ activeCount' = NRunning(pipe') /\ activeCount' >= 0
      /\ \A t \in TaskIds :
           (Running(pipe, t) /\ ~ Running(pipe', t) /\ phase' = "serving") =>
             /\ pipe'[t].pc = "done"
             /\ \A u \in TaskIds \ {t} : Running(pipe, u) => Running(pipe', u)
             /\ IF queue # <<>> /\ activeCount - 1 < maxConcurrency
                THEN /\ queue' = Tail(queue)
                     /\ pipe'[Head(queue)].pc = "starting"
                     /\ activeCount' = activeCount
                ELSE /\ queue' = queue
                     /\ activeCount' = activeCount - 1
    ]_vars

\* Under limit 1 a pipeline ended by the error that escaped executeTask, and
\* the task that was queued behind it has been started since.
C27_Witness ==
  /\ maxConcurrency = 1 /\ activeCount = 1
  /\ \E t, u \in TaskIds :
       /\ pipe[t].pc = "done" /\ pipe[t].res = "unhandledRejection"
       /\ Running(pipe, u)

ProcessingUpdateInFlight(t) ==
  \E k \in 1..Len(dbMutex) :
    /\ dbMutex[k].kind = "updateTask" /\ dbMutex[k].id = t
    /\ dbMutex[k].arg = [status |-> "processing"]

\* C28: while the server is serving, every record that is pending is in the
\* queue, or was just taken from it and its processing update is in flight,
\* and every record that is processing is that of a running pipeline; after
\* recovery and before a submission no record is pending or processing.
C28_RecoveryInvariant ==
  phase = "serving" =>
    /\ \A k \in 1..Len(tasksFile) :
         LET t == tasksFile[k].id IN
         /\ tasksFile[k].status = "pending" =>
              \/ InQueue(queue, t)
              \/ pipe[t].pc = "starting" /\ ProcessingUpdateInFlight(t)
         /\ tasksFile[k].status = "processing" => Running(pipe, t)
    /\ (\A t \in TaskIds : reqs[t] = NoReq) =>
         \A k \in 1..Len(tasksFile) : tasksFile[k].status \in Terminal

\* An admission check is pending when a DB call is in flight whose
\* continuation runs processQueue (submitTask, POST /api/config).
AdmissionPending ==
  \E k \in 1..Len(dbMutex) : dbMutex[k].kind \in {"addTask", "saveConfig"}

\* C29, the state part: in no reachable state is a task queued while no
\* pipeline runs, the limit is at least 1 and no admission check is pending.
C29_NoStall ==
  ~ ( /\ phase = "serving"
      /\ queue # <<>>
      /\ NRunning(pipe) = 0
      /\ maxConcurrency >= 1
      /\ ~ AdmissionPending )

\* C29, the progress part: once the limit is at least 1 for good, a queued
\* task is eventually started and its record eventually completed or failed.
C29_EveryTaskEnds ==
  \A t \in TaskIds :
    (pipe[t].pc = "queued" /\ [](maxConcurrency >= 1)) ~>
      (StatusIn(tasksFile, t) \in Terminal)

\* C30: a getConfig call that started after a saveConfig(c) had completed
\* returns c (merged over the defaults), whatever other getConfig calls,
\* the one of init and the first one that writes the default file included,
\* are in flight.
C30_SavedConfigRead ==
  \A k \in 1..Len(cfgGets) :
    (cfgGets[k].pc = "done" /\ cfgGets[k].after # <<>>) =>
      cfgGets[k].result = cfgGets[k].after

====
